---- MODULE Spec2Model ----
(***************************************************************************)
(* AUTO_ZAHRT: the device registry (devices/devices.py), the device-id     *)
(* resolution (methods/resolve.py) and the two command interpreters,       *)
(* GeneralExperimentMethod (methods/methods.py, "GEM") and MethodRunner    *)
(* (methods/experimental_runner.py, "MR"), with their background pump      *)
(* threads and the wait_for_pumps barrier.                                 *)
(***************************************************************************)
EXTENDS Integers, Sequences, FiniteSets, TLC

(***************************************************************************)
(* Bounds of the exploration.                                              *)
(***************************************************************************)
\* longest method script (number of rows / Command values) explored
MaxCmds == 4
\* longest sequence of registry calls explored by SpecReg
MaxRegCalls == 4
\* calls made on one driver object
MaxDrvCalls == 4
MaxM6Calls == 3

(***************************************************************************)
(* Values.                                                                 *)
(***************************************************************************)
\* Python's None where a device is expected
NoDev == <<"None", 0>>
\* an object that is not an instance of Device
NotADevice == <<"object", 0>>

\* devices/devices.py:24  Category
Categories ==
  {"pumps", "liquid_handlers", "temperature_controllers", "valves",
   "light_beds", "uv_detectors"}

\* an insertion-ordered dict name -> device: a sequence of entries
EmptyDict == << >>

DictNames(m) == [i \in 1..Len(m) |-> m[i].name]

DictHas(m, name) == \E i \in 1..Len(m) : m[i].name = name

\* dict.get(name): the device, or None
DictGet(m, name) ==
  IF DictHas(m, name)
    THEN (CHOOSE e \in {m[i] : i \in 1..Len(m)} : e.name = name).dev
    ELSE NoDev

\* dict.pop(name, None)
DictPop(m, name) == SelectSeq(m, LAMBDA e : e.name # name)

\* mapping[name] = device
DictSet(m, name, dev) ==
  IF DictHas(m, name)
    THEN [i \in 1..Len(m) |->
            IF m[i].name = name THEN [name |-> name, dev |-> dev] ELSE m[i]]
    ELSE Append(m, [name |-> name, dev |-> dev])

\* DeviceRegistry.__init__: six empty mappings
EmptyRegistry == [c \in Categories |-> EmptyDict]

\* isinstance(device, Device)
IsDevice(dev) == dev # NotADevice /\ dev # NoDev

\* DeviceRegistry._mapping_for raises KeyError for an unknown category
MappingForRaises(cat) == cat \notin Categories

\* DeviceRegistry.register: the exception it raises, or "ok"
RegisterResult(reg, cat, name, dev) ==
  IF ~IsDevice(dev) THEN "TypeError"
  ELSE IF MappingForRaises(cat) THEN "KeyError"
  ELSE IF DictHas(reg[cat], name) THEN "KeyError"
  ELSE "ok"

\* a register() that overwrites an existing entry without complaint
RegisterOverwrite(reg, cat, name, dev) ==
  IF ~IsDevice(dev) \/ MappingForRaises(cat) THEN reg
  ELSE [reg EXCEPT ![cat] = DictSet(reg[cat], name, dev)]

\* DeviceRegistry.register: the registry after the call
RegisterEffect(reg, cat, name, dev) ==
  IF RegisterResult(reg, cat, name, dev) = "ok"
    THEN [reg EXCEPT ![cat] = DictSet(reg[cat], name, dev)]
    ELSE reg

\* DeviceRegistry.unregister
UnregisterEffect(reg, cat, name) ==
  IF MappingForRaises(cat) THEN reg
  ELSE [reg EXCEPT ![cat] = DictPop(reg[cat], name)]

\* a get() that hands out the first device of the category on a miss
RegistryGetFallback(reg, cat, name) ==
  IF DictHas(reg[cat], name) \/ reg[cat] = EmptyDict
    THEN DictGet(reg[cat], name)
    ELSE reg[cat][1].dev

\* DeviceRegistry.get (for a known category)
RegistryGet(reg, cat, name) == DictGet(reg[cat], name)

\* DeviceRegistry.list_names (for a known category)
RegistryListNames(reg, cat) == DictNames(reg[cat])


(***************************************************************************)
(* Devices of the bench and the method-script alphabet.                    *)
(***************************************************************************)
\* name of a device: f"{prefix}_{id}"
DevName(prefix, id) == <<prefix, id>>

\* the devices of the instrument configuration (a device object is
\* identified with the name it is stored under)
Pumps == {DevName("Pump", 1), DevName("Pump", 2), DevName("Pump", 3)}
HarvardPumps == {DevName("HarvardPump", 1)}
Valves == {DevName("Valve", 1), DevName("Valve", 2)}
TempControllers == {DevName("Temperature", 1)}
LiquidHandlers == {DevName("GX281", 1)}
Devices == Pumps \cup HarvardPumps \cup Valves \cup TempControllers \cup LiquidHandlers

\* methods.py:141-143  self.instruments[attr_name] = obj
Instruments == Devices

\* methods.py:128-130  self.vici_valves[valve_id] = obj, in configuration order
ViciValveIds == <<1, 2>>

\* the registry handed to MethodRunner: every device registered in its category
RunRegistry ==
  [c \in Categories |->
     CASE c = "pumps" ->
            << [name |-> DevName("Pump", 1), dev |-> DevName("Pump", 1)],
               [name |-> DevName("Pump", 2), dev |-> DevName("Pump", 2)],
               [name |-> DevName("Pump", 3), dev |-> DevName("Pump", 3)],
               [name |-> DevName("HarvardPump", 1), dev |-> DevName("HarvardPump", 1)] >>
       [] c = "valves" ->
            << [name |-> DevName("Valve", 1), dev |-> DevName("Valve", 1)],
               [name |-> DevName("Valve", 2), dev |-> DevName("Valve", 2)] >>
       [] c = "temperature_controllers" ->
            << [name |-> DevName("Temperature", 1), dev |-> DevName("Temperature", 1)] >>
       [] c = "liquid_handlers" ->
            << [name |-> DevName("GX281", 1), dev |-> DevName("GX281", 1)] >>
       [] OTHER -> EmptyDict]

\* vici_valves.py:32-36  a "6-way" valve has 6 positions
ValvePositions == 6
\* TC720.py:81  safe setpoint range 0..100 degrees C
TempMin == 0
TempMax == 100

\* a Command / a row of the method script (command_type.py:13-19);
\* arg is the position, the setpoint or the volume, rate the flow rate
Cmd(comp, action, id, arg, rate) ==
  [comp |-> comp, action |-> action, id |-> id, arg |-> arg, rate |-> rate]

NoCmd == Cmd("", "", 0, 0, 0)

\* ids that name no device of the configuration
UnknownIds == {9}

CmdSet ==
  { Cmd("SYNC", "wait_for_pumps", 0, 0, 0) }
  \cup { Cmd("Pump", "dispensing", i, 500, 1000) : i \in {1, 2, 3} \cup UnknownIds }
  \cup { Cmd("Pump", "dispensing", 1, 0, 1000), Cmd("Pump", "dispense", 1, 500, 1000),
         Cmd("Pump", "aspirating", 2, 500, -1000) }
  \cup { Cmd("HarvardPump", a, 1, 500, 1000) : a \in {"infuse", "stop"} }
  \cup { Cmd("VICI-6Way", "go_to_position", 1, 3, 0),
         Cmd("VICI-6Way", "go_to_position", 1, 41, 0),
         Cmd("VICI-6Way", "go_to_position", -1, 3, 0) }
  \cup { Cmd("VICI-6Way", "go_to_position", i, 3, 0) : i \in UnknownIds }
  \cup { Cmd("Temperature", "set_temperature", 1, 50, 0),
         Cmd("Temperature", "set_temperature", 1, 500, 0) }
  \cup { Cmd("Temperature", "set_temperature", i, 50, 0) : i \in UnknownIds }
  \cup { Cmd("GX-281", "move_home", i, 0, 0) : i \in {1} \cup UnknownIds }
  \cup { Cmd("Stirrer", "start", 1, 0, 0) }

ValveComponents == {"VICI-6Way", "VICI-10Way", "VICI-24Way"}

\* methods.py:170 / experimental_runner.py:34
IsSync(c) == c.comp = "SYNC" /\ c.action = "wait_for_pumps"

(***************************************************************************)
(* Device-id resolution of MethodRunner (methods/resolve.py).              *)
(***************************************************************************)
\* the first candidate name that reg.get finds, else None
FirstRegistered(reg, cat, cands) ==
  IF \E k \in 1..Len(cands) : RegistryGet(reg, cat, cands[k]) # NoDev
    THEN cands[CHOOSE k \in 1..Len(cands) :
                 /\ RegistryGet(reg, cat, cands[k]) # NoDev
                 /\ \A j \in 1..(k-1) : RegistryGet(reg, cat, cands[j]) = NoDev]
    ELSE NoDev

\* names[0] if names else None
FirstOrNone(names) == IF Len(names) > 0 THEN names[1] ELSE NoDev

\* candidates first, then the first name of the category
ResolveWithFallback(reg, cat, cands, names) ==
  IF FirstRegistered(reg, cat, cands) # NoDev
    THEN FirstRegistered(reg, cat, cands)
    ELSE FirstOrNone(names)

resolve_temperature(reg, id) ==
  ResolveWithFallback(reg, "temperature_controllers",
    <<DevName("TC720", id), DevName("Temperature", id), DevName("temp", id)>>,
    RegistryListNames(reg, "temperature_controllers"))

resolve_valve(reg, id) ==
  ResolveWithFallback(reg, "valves",
    <<DevName("Valve", id), DevName("ViciValve", id), DevName("vici", id)>>,
    RegistryListNames(reg, "valves"))

resolve_pump(reg, id) ==
  ResolveWithFallback(reg, "pumps",
    <<DevName("Pump", id), DevName("VICI_M6", id), DevName("vici_pump", id)>>,
    RegistryListNames(reg, "pumps"))

resolve_harvard(reg, id) ==
  ResolveWithFallback(reg, "pumps",
    <<DevName("HarvardPump", id), DevName("PhdUltra", id)>>,
    SelectSeq(RegistryListNames(reg, "pumps"),
              LAMBDA n : n[1] \in {"HarvardPump", "PhdUltra"}))

\* "GX281" and "gx281" carry no id: written with id 0
resolve_gx281(reg, id) ==
  ResolveWithFallback(reg, "liquid_handlers",
    <<DevName("GX281", id), DevName("GX281", 0), DevName("gx281", 0)>>,
    RegistryListNames(reg, "liquid_handlers"))

\* self.registry.get(category, name) if name else None
GetResolved(reg, cat, name) == IF name # NoDev THEN RegistryGet(reg, cat, name) ELSE NoDev


(***************************************************************************)
(* State.                                                                  *)
(***************************************************************************)
VARIABLES
  impl,        \* which interpreter runs the script: "GEM" or "MR"
  idx,         \* number of rows the for loop has taken from the script
  cmd,         \* the row being processed
  pc,          \* position of the control thread
  threads,     \* self._pump_threads: handles in launch order
  jobs,        \* per handle (= row number that launched it): the device its
               \* target works on while it runs (Thread.run deletes the
               \* target when it ends), and its state
  log,         \* the run log, per row still in progress (the row being
               \* dispatched and the rows whose thread is on _pump_threads):
               \* its records in the order written; row 0: records of no row
  mainIn,      \* device whose driver the control thread is inside, or None
  targets,     \* devices the current synchronous command still has to call
  touched,     \* devices on which the current row invoked an operation
  closeCalled, \* devices on which close() has been invoked
  exc,         \* exception that left the dispatch of the current row
  paused,      \* pause_event.is_set()
  dispatched,  \* rows handed to the dispatcher, in order
  registry,    \* the DeviceRegistry
  regCall,     \* last registry call and its result
  regCount,    \* number of registry calls made
  drv,         \* one device driver object: its class and its fields
  drvCall,     \* last call made on the driver object and what it did
  drvCount,    \* number of calls made on the driver object
  frame,       \* last frame the TC720 driver built, as a list of characters
  m6,          \* one VICI_M6_Pumps object: its fields and what its last
               \* call wrote to the motor
  calc         \* last call of a function without side effects: its name,
               \* its arguments and what it returned or raised

vars ==
  <<impl, idx, cmd, pc, threads, jobs, log, mainIn, targets, touched,
    closeCalled, exc, paused, dispatched, registry, regCall, regCount,
    drv, drvCall, drvCount, frame, m6, calc>>

runVars ==
  <<impl, idx, cmd, pc, threads, jobs, log, mainIn, targets, touched,
    closeCalled, exc, paused, dispatched>>

regVars == <<registry, regCall, regCount>>

drvVars == <<drv, drvCall, drvCount, frame, m6, calc>>

\* no driver object is exercised
NoDrv == [kind |-> "none", connected |-> FALSE, ser |-> "None", opens |-> 0, z |-> 0]
NoDrvCall == [op |-> "none", a |-> 0, b |-> 0, result |-> "none", sent |-> << >>,
              opened |-> FALSE, silent |-> FALSE, reported |-> << >>]
\* no stepper pump object exists, no function was called
NoM6 == [op |-> "none"]
NoCalc == [f |-> "none"]
DrvIdle ==
  /\ drv = NoDrv /\ drvCall = NoDrvCall /\ drvCount = 0 /\ frame = << >>
  /\ m6 = NoM6 /\ calc = NoCalc

Handles == 1..MaxCmds

NoJob == [dev |-> NoDev, st |-> "none"]
NoExc == [type |-> "none", site |-> "none"]
Exc(type, site) == [type |-> type, site |-> site]
NoCall == [op |-> "none", cat |-> "", name |-> NoDev, dev |-> NoDev,
           result |-> "none", found |-> NoDev, names |-> << >>]

\* log_to_csv / RunLogger.write: one more record for row i (0: no row)
Write(i, out) == [log EXCEPT ![i] = Append(@, out)]

\* the records of the rows still in progress: those whose thread is on ths
InProgress(l, ths) ==
  [i \in 0..MaxCmds |->
     IF \E k \in 1..Len(ths) : ths[k] = i THEN l[i] ELSE << >>]

\* the Thread objects dropped by self._pump_threads.clear()
Dropped(js, ths) ==
  [h \in Handles |->
     IF \E k \in 1..Len(ths) : ths[k] = h THEN NoJob ELSE js[h]]

\* thread.is_alive()
Alive(h) == jobs[h].st = "running"

\* a barrier that does not wait for the threads
NoJoin == TRUE

\* for t in self._pump_threads: t.join()  returns
AllJoined == \A k \in 1..Len(threads) : ~Alive(threads[k])

\* who is inside the driver of device d
InDriver(d) ==
  {h \in Handles : jobs[h].dev = d /\ Alive(h)}
    \cup (IF mainIn = d THEN {0} ELSE {})

(***************************************************************************)
(* Drivers, as far as the interpreters depend on them.                     *)
(***************************************************************************)
\* a go_to_position without its range check
ValveAcceptsAll(pos) == FALSE

\* vici_valves.py:106-108  go_to_position rejects a position outside 1..positions
ValveRejects(pos) == ~(1 <= pos /\ pos <= ValvePositions)

\* a set_temperature without the range check
TempAcceptsAll(t) == FALSE

\* TC720.py:81-82  set_temperature rejects a setpoint outside the range
TempRejects(t) == ~(TempMin <= t /\ t <= TempMax)

\* the exception a synchronous driver call raises before any I/O, if any
ValidationError(c) ==
  \/ c.comp \in ValveComponents /\ c.action = "go_to_position" /\ ValveRejects(c.arg)
  \/ c.comp = "Temperature" /\ c.action = "set_temperature" /\ TempRejects(c.arg)

\* phd_ultra_pumps.py defines no infuse_volume
HasInfuseVolume(d) == FALSE


(***************************************************************************)
(* GeneralExperimentMethod (methods/methods.py).                           *)
(* time.sleep(self.delay) after a dispatch changes no state and is part of *)
(* the step that ends the dispatch.                                        *)
(***************************************************************************)
\* self.instruments.get(f"{prefix}_{id}")
InstrumentGet(prefix, id) ==
  IF DevName(prefix, id) \in Instruments THEN DevName(prefix, id) ELSE NoDev

\* self.vici_valves.values() if valve_id == -1 else [self.vici_valves.get(valve_id)],
\* without the None entries the loop skips
GemValveTargets(id) ==
  IF id = -1
    THEN [k \in 1..Len(ViciValveIds) |-> DevName("Valve", ViciValveIds[k])]
    ELSE IF \E k \in 1..Len(ViciValveIds) : ViciValveIds[k] = id
           THEN <<DevName("Valve", id)>>
           ELSE << >>

\* run_experiment, line 154: the load_method record, then the loop
GemRunExperiment ==
  /\ impl = "GEM" /\ pc = "start"
  /\ log' = Write(0, "load_method")
  /\ pc' = "loop"
  /\ UNCHANGED <<regVars, drvVars, impl, idx, cmd, threads, jobs, mainIn, targets, touched,
                 closeCalled, exc, paused, dispatched>>

\* a loop that steps over a row
GemNextRowSkips ==
  /\ impl = "GEM" /\ pc = "loop" /\ idx + 1 < MaxCmds
  /\ \E c \in CmdSet : cmd' = c
  /\ idx' = idx + 2
  /\ dispatched' = Append(dispatched, idx + 2)
  /\ touched' = {}
  /\ log' = InProgress(log, threads)
  /\ pc' = "dispatch"
  /\ UNCHANGED <<regVars, drvVars, impl, threads, jobs, mainIn, targets, closeCalled, exc, paused>>

\* for index, row in self.method.iterrows(): the next row
GemNextRow ==
  /\ impl = "GEM" /\ pc = "loop" /\ idx < MaxCmds
  /\ \E c \in CmdSet : cmd' = c
  /\ idx' = idx + 1
  /\ dispatched' = Append(dispatched, idx + 1)
  /\ touched' = {}
  /\ log' = InProgress(log, threads)
  /\ pc' = "dispatch"
  /\ UNCHANGED <<regVars, drvVars, impl, threads, jobs, mainIn, targets, closeCalled, exc, paused>>

\* the loop is exhausted: line 188
GemEndOfScript ==
  /\ impl = "GEM" /\ pc = "loop"
  /\ pc' = "final"
  /\ UNCHANGED <<regVars, drvVars, impl, idx, cmd, threads, jobs, log, mainIn, targets, touched,
                 closeCalled, exc, paused, dispatched>>

\* lines 170-172
GemSync ==
  /\ impl = "GEM" /\ pc = "dispatch" /\ IsSync(cmd)
  /\ pc' = "join"
  /\ UNCHANGED <<regVars, drvVars, impl, idx, cmd, threads, jobs, log, mainIn, targets, touched,
                 closeCalled, exc, paused, dispatched>>

\* wait_for_pumps: returns when every join has returned
GemWaitForPumps ==
  /\ impl = "GEM" /\ pc \in {"join", "final"}
  /\ AllJoined
  /\ log' = Write(IF pc = "join" THEN idx ELSE 0, "All pumps finished")
  /\ threads' = << >>
  /\ jobs' = Dropped(jobs, threads)
  /\ pc' = IF pc = "join" THEN "loop" ELSE "closing"
  /\ UNCHANGED <<regVars, drvVars, impl, idx, cmd, mainIn, targets, touched,
                 closeCalled, exc, paused, dispatched>>

\* execute_pump up to and including thread.start() and the append
GemPump ==
  /\ impl = "GEM" /\ pc = "dispatch" /\ cmd.comp = "Pump"
  /\ LET pump == InstrumentGet("Pump", cmd.id) IN
       IF pump = NoDev
         THEN /\ log' = Write(idx, "not found")
              /\ pc' = "loop"
              /\ UNCHANGED <<threads, jobs, touched>>
       ELSE IF cmd.action \notin {"aspirating", "dispensing"}
         THEN /\ log' = Write(idx, "invalid action")
              /\ pc' = "loop"
              /\ UNCHANGED <<threads, jobs, touched>>
       ELSE IF cmd.rate <= 0 \/ cmd.arg <= 0
         THEN /\ log' = Write(idx, "skipped")
              /\ pc' = "loop"
              /\ UNCHANGED <<threads, jobs, touched>>
       ELSE /\ jobs' = [jobs EXCEPT ![idx] = [dev |-> pump, st |-> "running"]]
            /\ threads' = Append(threads, idx)
            /\ touched' = {pump}
            /\ pc' = "started"
            /\ UNCHANGED log
  /\ UNCHANGED <<regVars, drvVars, impl, idx, cmd, mainIn, targets, closeCalled, exc, paused, dispatched>>

\* execute_harvard_pump up to the launch or the synchronous call
GemHarvard ==
  /\ impl = "GEM" /\ pc = "dispatch" /\ cmd.comp = "HarvardPump"
  /\ LET pump == InstrumentGet("HarvardPump", cmd.id) IN
       IF cmd.action \notin {"select_syringe", "infuse", "stop"}
         THEN \* extract_harvard_params raises outside the try block
              /\ exc' = Exc("ValueError", "params")
              /\ pc' = "fatal"
              /\ UNCHANGED <<threads, jobs, touched, log, targets>>
       ELSE IF pump = NoDev
         THEN /\ log' = Write(idx, "not found")
              /\ pc' = "loop"
              /\ UNCHANGED <<threads, jobs, touched, exc, targets>>
       ELSE IF cmd.action = "infuse"
         THEN /\ jobs' = [jobs EXCEPT ![idx] = [dev |-> pump, st |-> "running"]]
              /\ threads' = Append(threads, idx)
              /\ touched' = {pump}
              /\ pc' = "started"
              /\ UNCHANGED <<log, exc, targets>>
       ELSE /\ targets' = <<pump>>
            /\ pc' = "targets"
            /\ UNCHANGED <<threads, jobs, touched, log, exc>>
  /\ UNCHANGED <<regVars, drvVars, impl, idx, cmd, mainIn, closeCalled, paused, dispatched>>

\* the "Started async ..." record written after the launch (lines 293, 325)
GemLogStarted ==
  /\ impl = "GEM" /\ pc = "started"
  /\ log' = Write(idx, "started")
  /\ pc' = "loop"
  /\ UNCHANGED <<regVars, drvVars, impl, idx, cmd, threads, jobs, mainIn, targets, touched,
                 closeCalled, exc, paused, dispatched>>

\* a job that lets the exception of its driver call escape unlogged
JobEscapes(h, ok) ==
  /\ jobs' = [jobs EXCEPT ![h] = [dev |-> NoDev, st |-> IF ok THEN "ok" ELSE "died"]]
  /\ log' = IF ok THEN Write(h, "done") ELSE log

\* _vici_job / _harvard_job: the driver calls return or raise; either way the
\* job writes its record and the thread ends
GemJobBody(h, ok) ==
  /\ jobs' = [jobs EXCEPT ![h] = [dev |-> NoDev, st |-> IF ok THEN "ok" ELSE "err"]]
  /\ log' = Write(h, IF ok THEN "done" ELSE "Error in thread")

GemJobFinish(h) ==
  /\ impl = "GEM" /\ Alive(h)
  /\ \E ok \in BOOLEAN :
       /\ (jobs[h].dev \in HarvardPumps /\ ~HasInfuseVolume(jobs[h].dev)) => ~ok
       /\ GemJobBody(h, ok)
  /\ UNCHANGED <<regVars, drvVars, impl, idx, cmd, pc, threads, mainIn, targets, touched,
                 closeCalled, exc, paused, dispatched>>

\* execute_vici_valve: the targets of go_to_position / move_home
GemValve ==
  /\ impl = "GEM" /\ pc = "dispatch" /\ cmd.comp \in ValveComponents
  /\ IF cmd.action \in {"go_to_position", "move_home"}
          /\ GemValveTargets(cmd.id) # << >>
       THEN /\ targets' = GemValveTargets(cmd.id)
            /\ pc' = "targets"
       ELSE \* no such valve, or another action: nothing is done or logged
            /\ targets' = << >>
            /\ pc' = "loop"
  /\ UNCHANGED <<regVars, drvVars, impl, idx, cmd, threads, jobs, log, mainIn, touched,
                 closeCalled, exc, paused, dispatched>>

\* execute_temperature
GemTemperature ==
  /\ impl = "GEM" /\ pc = "dispatch" /\ cmd.comp = "Temperature"
  /\ LET ctrl == InstrumentGet("Temperature", cmd.id) IN
       IF cmd.action # "set_temperature"
         THEN pc' = "loop" /\ UNCHANGED <<log, targets>>
       ELSE IF ctrl = NoDev
         THEN /\ log' = Write(idx, "not found")
              /\ pc' = "loop"
              /\ UNCHANGED targets
       ELSE /\ targets' = <<ctrl>>
            /\ pc' = "targets"
            /\ UNCHANGED log
  /\ UNCHANGED <<regVars, drvVars, impl, idx, cmd, threads, jobs, mainIn, touched,
                 closeCalled, exc, paused, dispatched>>

\* execute_gx281, action move_home (the device is always GX281_1)
GemGx281 ==
  /\ impl = "GEM" /\ pc = "dispatch" /\ cmd.comp = "GX-281"
  /\ cmd.action = "move_home"
  /\ LET gx == InstrumentGet("GX281", 1) IN
       IF gx = NoDev
         THEN /\ log' = Write(idx, "not found")
              /\ pc' = "loop"
              /\ UNCHANGED targets
         ELSE /\ targets' = <<gx>>
              /\ pc' = "targets"
              /\ UNCHANGED log
  /\ UNCHANGED <<regVars, drvVars, impl, idx, cmd, threads, jobs, mainIn, touched,
                 closeCalled, exc, paused, dispatched>>

\* lines 183-184: any other component
GemInvalidComponent ==
  /\ impl = "GEM" /\ pc = "dispatch"
  /\ ~IsSync(cmd)
  /\ cmd.comp \notin {"GX-281", "Pump", "HarvardPump", "Temperature"} \cup ValveComponents
  /\ log' = Write(idx, "Invalid Component")
  /\ pc' = "loop"
  /\ UNCHANGED <<regVars, drvVars, impl, idx, cmd, threads, jobs, mainIn, targets, touched,
                 closeCalled, exc, paused, dispatched>>

\* the control thread enters the driver of the next target
GemCallBegin ==
  /\ impl = "GEM" /\ pc = "targets" /\ targets # << >>
  /\ mainIn' = Head(targets)
  /\ touched' = touched \cup {Head(targets)}
  /\ pc' = "call"
  /\ UNCHANGED <<regVars, drvVars, impl, idx, cmd, threads, jobs, log, targets,
                 closeCalled, exc, paused, dispatched>>

\* records written after a driver call that returned: the valve branches
\* write the move and the position read-back, the others one record
GemCallRecords ==
  IF cmd.comp \in ValveComponents
    THEN <<"ok", "check_position">>
    ELSE <<"ok">>

\* the driver call returns or raises. Only execute_harvard_pump wraps its
\* driver calls in try/except (lines 307-335); elsewhere the exception leaves
\* the dispatch and reaches the except: of run_experiment.
GemCallEnd ==
  /\ impl = "GEM" /\ pc = "call"
  /\ mainIn' = NoDev
  /\ \E raises \in BOOLEAN :
       /\ ValidationError(cmd) => raises
       /\ IF ~raises
            THEN /\ log' = [log EXCEPT ![idx] = @ \o GemCallRecords]
                 /\ targets' = Tail(targets)
                 /\ pc' = IF Tail(targets) = << >> THEN "loop" ELSE "targets"
                 /\ UNCHANGED exc
          ELSE IF cmd.comp = "HarvardPump"
            THEN /\ log' = Write(idx, "Error")
                 /\ targets' = << >>
                 /\ pc' = "loop"
                 /\ UNCHANGED exc
          ELSE /\ exc' = IF ValidationError(cmd)
                           THEN Exc("ValueError", "validation")
                           ELSE Exc("RuntimeError", "driver")
               /\ targets' = << >>
               /\ pc' = "fatal"
               /\ UNCHANGED log
  /\ UNCHANGED <<regVars, drvVars, impl, idx, cmd, threads, jobs, touched, closeCalled, paused, dispatched>>

\* lines 191-193: the bare except of run_experiment
GemFatal ==
  /\ impl = "GEM" /\ pc = "fatal"
  /\ log' = Write(idx, "Experiment failed")
  /\ pc' = "closing"
  /\ UNCHANGED <<regVars, drvVars, impl, idx, cmd, threads, jobs, mainIn, targets, touched,
                 closeCalled, exc, paused, dispatched>>

\* close_all_connections: close() on every instrument, failures skipped
GemCloseAll ==
  /\ impl = "GEM" /\ pc = "closing"
  /\ closeCalled' = Instruments
  /\ pc' = "done"
  /\ UNCHANGED <<regVars, drvVars, impl, idx, cmd, threads, jobs, log, mainIn, targets, touched,
                 exc, paused, dispatched>>


(***************************************************************************)
(* MethodRunner (methods/experimental_runner.py).                          *)
(* __init__ stores the log sink as self.logger (line 14); every record is  *)
(* written through self.log, an attribute nothing assigns, so each write   *)
(* raises AttributeError at the place of the call.  run() has no handler.  *)
(***************************************************************************)
\* self.log.write(...) in the control thread
MrLogWriteRaises ==
  /\ exc' = Exc("AttributeError", "log")
  /\ pc' = "raised"

\* run(), entry
MrRun ==
  /\ impl = "MR" /\ pc = "start"
  /\ pc' = "loop"
  /\ UNCHANGED <<regVars, drvVars, impl, idx, cmd, threads, jobs, log, mainIn, targets, touched,
                 closeCalled, exc, paused, dispatched>>

\* for cmd in commands: the next command
MrNextRow ==
  /\ impl = "MR" /\ pc = "loop" /\ idx < MaxCmds
  /\ \E c \in CmdSet : cmd' = c
  /\ idx' = idx + 1
  /\ touched' = {}
  /\ log' = InProgress(log, threads)
  /\ pc' = "pause"
  /\ UNCHANGED <<regVars, drvVars, impl, threads, jobs, mainIn, targets, closeCalled, exc,
                 paused, dispatched>>

\* the list is exhausted: line 26
MrEndOfScript ==
  /\ impl = "MR" /\ pc = "loop"
  /\ pc' = "final"
  /\ UNCHANGED <<regVars, drvVars, impl, idx, cmd, threads, jobs, log, mainIn, targets, touched,
                 closeCalled, exc, paused, dispatched>>

\* the operator sets or clears the pause event while the run is going on
TogglePause ==
  /\ impl = "MR" /\ pc \notin {"start", "done", "raised"}
  /\ paused' = ~paused
  /\ UNCHANGED <<regVars, drvVars, impl, idx, cmd, pc, threads, jobs, log, mainIn, targets, touched,
                 closeCalled, exc, dispatched>>

\* lines 21-24: the pause check; the record of the wait goes through self.log
MrPauseCheck ==
  /\ impl = "MR" /\ pc = "pause"
  /\ IF paused
       THEN /\ exc' = Exc("AttributeError", "pause log")
            /\ pc' = "raised"
            /\ UNCHANGED dispatched
       ELSE /\ pc' = "dispatch"
            /\ dispatched' = Append(dispatched, idx)
            /\ UNCHANGED exc
  /\ UNCHANGED <<regVars, drvVars, impl, idx, cmd, threads, jobs, log, mainIn, targets, touched,
                 closeCalled, paused>>

\* _execute, lines 34-35
MrSync ==
  /\ impl = "MR" /\ pc = "dispatch"
  /\ cmd.comp = "SYNC" /\ cmd.action = "wait_for_pumps"
  /\ pc' = "join"
  /\ UNCHANGED <<regVars, drvVars, impl, idx, cmd, threads, jobs, log, mainIn, targets, touched,
                 closeCalled, exc, paused, dispatched>>

\* wait_for_pumps: join all, clear, then the record
MrWaitForPumps ==
  /\ impl = "MR" /\ pc \in {"join", "final"}
  /\ AllJoined
  /\ threads' = << >>
  /\ jobs' = Dropped(jobs, threads)
  /\ MrLogWriteRaises
  /\ UNCHANGED <<regVars, drvVars, impl, idx, cmd, log, mainIn, targets, touched,
                 closeCalled, paused, dispatched>>

\* _do_pump up to and including th.start() and the append
MrPump ==
  /\ impl = "MR" /\ pc = "dispatch" /\ cmd.comp = "Pump"
  /\ LET pump == GetResolved(registry, "pumps", resolve_pump(registry, cmd.id)) IN
       IF \/ pump = NoDev
          \/ cmd.action \notin {"aspirating", "dispensing"}
          \/ cmd.rate <= 0 \/ cmd.arg <= 0
         THEN /\ MrLogWriteRaises
              /\ UNCHANGED <<threads, jobs, touched>>
         ELSE /\ jobs' = [jobs EXCEPT ![idx] = [dev |-> pump, st |-> "running"]]
              /\ threads' = Append(threads, idx)
              /\ touched' = {pump}
              /\ pc' = "started"
              /\ UNCHANGED exc
  /\ UNCHANGED <<regVars, drvVars, impl, idx, cmd, log, mainIn, targets, closeCalled, paused, dispatched>>

\* _do_harvard up to the launch or the synchronous call
MrHarvard ==
  /\ impl = "MR" /\ pc = "dispatch" /\ cmd.comp = "HarvardPump"
  /\ LET pump == GetResolved(registry, "pumps", resolve_harvard(registry, cmd.id)) IN
       IF pump = NoDev
         THEN /\ MrLogWriteRaises
              /\ UNCHANGED <<threads, jobs, touched, targets>>
       ELSE IF cmd.action = "infuse" /\ HasInfuseVolume(pump)
         THEN /\ jobs' = [jobs EXCEPT ![idx] = [dev |-> pump, st |-> "running"]]
              /\ threads' = Append(threads, idx)
              /\ touched' = {pump}
              /\ pc' = "started"
              /\ UNCHANGED <<exc, targets>>
       ELSE IF cmd.action \in {"select_syringe", "stop"}
         THEN /\ targets' = <<pump>>
              /\ pc' = "targets"
              /\ UNCHANGED <<threads, jobs, touched, exc>>
       ELSE /\ MrLogWriteRaises
            /\ UNCHANGED <<threads, jobs, touched, targets>>
  /\ UNCHANGED <<regVars, drvVars, impl, idx, cmd, log, mainIn, closeCalled, paused, dispatched>>

\* the "started" record after the launch (lines 128, 151)
MrLogStarted ==
  /\ impl = "MR" /\ pc = "started"
  /\ MrLogWriteRaises
  /\ UNCHANGED <<regVars, drvVars, impl, idx, cmd, threads, jobs, log, mainIn, targets, touched,
                 closeCalled, paused, dispatched>>

\* job(): the record of the outcome raises AttributeError inside the try,
\* the handler's own record raises it again, and the thread ends with it
MrJobFinish(h) ==
  /\ impl = "MR" /\ Alive(h)
  /\ jobs' = [jobs EXCEPT ![h] = [dev |-> NoDev, st |-> "died"]]
  /\ UNCHANGED <<regVars, drvVars, impl, idx, cmd, pc, threads, log, mainIn, targets, touched,
                 closeCalled, exc, paused, dispatched>>

\* _do_valve, lines 76-85: every valve for id -1, else the resolved one
MrValveTargets(reg, id) ==
  IF id = -1
    THEN SelectSeq([k \in 1..Len(RegistryListNames(reg, "valves")) |->
                      RegistryGet(reg, "valves", RegistryListNames(reg, "valves")[k])],
                   LAMBDA d : d # NoDev)
    ELSE IF GetResolved(reg, "valves", resolve_valve(reg, id)) # NoDev
           THEN <<GetResolved(reg, "valves", resolve_valve(reg, id))>>
           ELSE << >>

\* _do_valve
MrValve ==
  /\ impl = "MR" /\ pc = "dispatch" /\ cmd.comp \in ValveComponents
  /\ IF MrValveTargets(registry, cmd.id) = << >>
          \/ cmd.action \notin {"move_home", "go_to_position"}
       THEN /\ MrLogWriteRaises
            /\ UNCHANGED targets
       ELSE /\ targets' = MrValveTargets(registry, cmd.id)
            /\ pc' = "targets"
            /\ UNCHANGED exc
  /\ UNCHANGED <<regVars, drvVars, impl, idx, cmd, threads, jobs, log, mainIn, touched,
                 closeCalled, paused, dispatched>>

\* _do_temperature
MrTemperature ==
  /\ impl = "MR" /\ pc = "dispatch" /\ cmd.comp = "Temperature"
  /\ LET dev == GetResolved(registry, "temperature_controllers",
                            resolve_temperature(registry, cmd.id)) IN
       IF dev = NoDev \/ cmd.action \notin {"set_temperature", "read_temperature"}
         THEN /\ MrLogWriteRaises
              /\ UNCHANGED targets
         ELSE /\ targets' = <<dev>>
              /\ pc' = "targets"
              /\ UNCHANGED exc
  /\ UNCHANGED <<regVars, drvVars, impl, idx, cmd, threads, jobs, log, mainIn, touched,
                 closeCalled, paused, dispatched>>

\* _do_gx281, action move_home
MrGx281 ==
  /\ impl = "MR" /\ pc = "dispatch" /\ cmd.comp = "GX-281"
  /\ cmd.action = "move_home"
  /\ LET inst == GetResolved(registry, "liquid_handlers",
                             resolve_gx281(registry, cmd.id)) IN
       IF inst = NoDev
         THEN /\ MrLogWriteRaises
              /\ UNCHANGED targets
         ELSE /\ targets' = <<inst>>
              /\ pc' = "targets"
              /\ UNCHANGED exc
  /\ UNCHANGED <<regVars, drvVars, impl, idx, cmd, threads, jobs, log, mainIn, touched,
                 closeCalled, paused, dispatched>>

\* _execute, line 52: any other component
MrInvalidComponent ==
  /\ impl = "MR" /\ pc = "dispatch"
  /\ ~(cmd.comp = "SYNC" /\ cmd.action = "wait_for_pumps")
  /\ cmd.comp \notin {"GX-281", "Pump", "HarvardPump", "Temperature"} \cup ValveComponents
  /\ MrLogWriteRaises
  /\ UNCHANGED <<regVars, drvVars, impl, idx, cmd, threads, jobs, log, mainIn, targets, touched,
                 closeCalled, paused, dispatched>>

\* the control thread enters the driver of the next target
MrCallBegin ==
  /\ impl = "MR" /\ pc = "targets" /\ targets # << >>
  /\ mainIn' = Head(targets)
  /\ touched' = touched \cup {Head(targets)}
  /\ pc' = "call"
  /\ UNCHANGED <<regVars, drvVars, impl, idx, cmd, threads, jobs, log, targets,
                 closeCalled, exc, paused, dispatched>>

\* the driver call raises, or returns and the record of it raises
MrCallEnd ==
  /\ impl = "MR" /\ pc = "call"
  /\ mainIn' = NoDev
  /\ targets' = << >>
  /\ pc' = "raised"
  /\ \E raises \in BOOLEAN :
       /\ ValidationError(cmd) => raises
       /\ exc' = IF ~raises THEN Exc("AttributeError", "log")
                 ELSE IF ValidationError(cmd) THEN Exc("ValueError", "validation")
                 ELSE Exc("RuntimeError", "driver")
  /\ UNCHANGED <<regVars, drvVars, impl, idx, cmd, threads, jobs, log, touched, closeCalled,
                 paused, dispatched>>

(***************************************************************************)
(* The run of a method script.                                             *)
(***************************************************************************)
Init ==
  /\ impl \in {"GEM", "MR"}
  /\ idx = 0
  /\ cmd = NoCmd
  /\ pc = "start"
  /\ threads = << >>
  /\ jobs = [h \in Handles |-> NoJob]
  /\ log = [i \in 0..MaxCmds |-> << >>]
  /\ mainIn = NoDev
  /\ targets = << >>
  /\ touched = {}
  /\ closeCalled = {}
  /\ exc = NoExc
  /\ paused = FALSE
  /\ dispatched = << >>
  /\ registry = RunRegistry
  /\ regCall = NoCall
  /\ regCount = 0
  /\ DrvIdle

Next ==
  \/ GemRunExperiment \/ GemNextRow \/ GemEndOfScript \/ GemSync
  \/ GemWaitForPumps \/ GemPump \/ GemHarvard \/ GemLogStarted
  \/ (\E h \in Handles : GemJobFinish(h))
  \/ GemValve \/ GemTemperature \/ GemGx281 \/ GemInvalidComponent
  \/ GemCallBegin \/ GemCallEnd \/ GemFatal \/ GemCloseAll
  \/ MrRun \/ MrNextRow \/ MrEndOfScript \/ TogglePause \/ MrPauseCheck
  \/ MrSync \/ MrWaitForPumps \/ MrPump \/ MrHarvard \/ MrLogStarted
  \/ (\E h \in Handles : MrJobFinish(h))
  \/ MrValve \/ MrTemperature \/ MrGx281 \/ MrInvalidComponent
  \/ MrCallBegin \/ MrCallEnd

Spec == Init /\ [][Next]_vars

\* The runs in which the control thread and every job thread keep being
\* scheduled: a step other than a change of the pause flag is eventually
\* taken whenever one stays possible, so every launched job finishes.
SpecLive == Init /\ [][Next]_vars /\ WF_vars(Next /\ paused' = paused)


(***************************************************************************)
(* The registry on its own: any sequence of calls on a fresh registry.     *)
(***************************************************************************)
\* arguments tried: two known categories and one that is not a category,
\* two names, two Device instances and one object that is not a Device
RegCats == {"pumps", "valves", "motors"}
RegNames == {DevName("Pump", 1), DevName("Pump", 2)}
RegDevs == {DevName("Pump", 1), DevName("Pump", 2), NotADevice}

Call(op, cat, name, dev, result, found, names) ==
  [op |-> op, cat |-> cat, name |-> name, dev |-> dev,
   result |-> result, found |-> found, names |-> names]

\* registry.register(cat, name, dev)
RegRegister(cat, name, dev) ==
  /\ regCount < MaxRegCalls
  /\ registry' = RegisterEffect(registry, cat, name, dev)
  /\ regCall' = Call("register", cat, name, dev,
                     RegisterResult(registry, cat, name, dev), NoDev, << >>)
  /\ regCount' = regCount + 1
  /\ UNCHANGED <<runVars, drvVars>>

\* registry.unregister(cat, name)
RegUnregister(cat, name) ==
  /\ regCount < MaxRegCalls
  /\ registry' = UnregisterEffect(registry, cat, name)
  /\ regCall' = Call("unregister", cat, name, NoDev,
                     IF MappingForRaises(cat) THEN "KeyError" ELSE "ok", NoDev, << >>)
  /\ regCount' = regCount + 1
  /\ UNCHANGED <<runVars, drvVars>>

\* registry.get(cat, name)
RegGet(cat, name) ==
  /\ regCount < MaxRegCalls
  /\ regCall' = IF MappingForRaises(cat)
                  THEN Call("get", cat, name, NoDev, "KeyError", NoDev, << >>)
                  ELSE Call("get", cat, name, NoDev, "ok",
                            RegistryGet(registry, cat, name), << >>)
  /\ regCount' = regCount + 1
  /\ UNCHANGED <<registry, runVars, drvVars>>

\* registry.list_names(cat)
RegListNames(cat) ==
  /\ regCount < MaxRegCalls
  /\ regCall' = IF MappingForRaises(cat)
                  THEN Call("list_names", cat, NoDev, NoDev, "KeyError", NoDev, << >>)
                  ELSE Call("list_names", cat, NoDev, NoDev, "ok", NoDev,
                            RegistryListNames(registry, cat))
  /\ regCount' = regCount + 1
  /\ UNCHANGED <<registry, runVars, drvVars>>

InitReg ==
  /\ impl = "MR"
  /\ idx = 0
  /\ cmd = NoCmd
  /\ pc = "start"
  /\ threads = << >>
  /\ jobs = [h \in Handles |-> NoJob]
  /\ log = [i \in 0..MaxCmds |-> << >>]
  /\ mainIn = NoDev
  /\ targets = << >>
  /\ touched = {}
  /\ closeCalled = {}
  /\ exc = NoExc
  /\ paused = FALSE
  /\ dispatched = << >>
  /\ registry = EmptyRegistry
  /\ regCall = NoCall
  /\ regCount = 0
  /\ DrvIdle

NextReg ==
  \/ \E cat \in RegCats, name \in RegNames, dev \in RegDevs : RegRegister(cat, name, dev)
  \/ \E cat \in RegCats, name \in RegNames : RegUnregister(cat, name)
  \/ \E cat \in RegCats, name \in RegNames : RegGet(cat, name)
  \/ \E cat \in RegCats : RegListNames(cat)

SpecReg == InitReg /\ [][NextReg]_vars


(***************************************************************************)
(* The device drivers: one driver object, its lifecycle (connect, close,   *)
(* stop) and its commands.  Each call is one step; the environment of a    *)
(* call (whether the port can be opened, whether the device answers) is    *)
(* chosen per call.                                                        *)
(***************************************************************************)
\* Optional[int] = None
NoArg == -1

\* a command written to the link: its mnemonic and up to two numbers
Wire(c, a, b) == <<c, a, b>>

\* what a call did: d the object after it, result "ok" or the exception
DrvRetF(d, op, a, b, result, sent, opened, silent, reported, f) ==
  /\ drv' = d
  /\ frame' = f
  /\ drvCall' = [op |-> op, a |-> a, b |-> b, result |-> result, sent |-> sent,
                 opened |-> opened, silent |-> silent, reported |-> reported]
  /\ drvCount' = drvCount + 1
  /\ UNCHANGED <<runVars, regVars, m6, calc>>

\* a call that builds no TC720 frame
DrvRet(d, op, a, b, result, sent, opened, silent, reported) ==
  DrvRetF(d, op, a, b, result, sent, opened, silent, reported, frame)

\* the caller can make one more call on an object of this class: the call
\* before it has returned
CanCall(kind) ==
  /\ drv.kind = kind
  /\ drvCount < MaxDrvCalls
  /\ drvCall.result # "hang"

\* serial.Serial(port=...): the object with its new transport
SerialOpened(d) == [d EXCEPT !.ser = "open", !.opens = @ + 1]

\* the exceptions of a write or a buffer reset on a transport
SerialRaises(d) ==
  IF d.ser = "None" THEN "AttributeError"
  ELSE IF d.ser = "closed" THEN "SerialException"
  ELSE "ok"

(***************************************************************************)
(* ViciValve                                                               *)
(***************************************************************************)
\* ViciValve._ensure_connected raises RuntimeError
ViciEnsureConnectedRaises(d) == ~(d.connected /\ d.ser = "open")

\* ViciValve._send(command): write the command, read one line
ViciSend(op, a, b, w, answers) ==
  IF ViciEnsureConnectedRaises(drv)
    THEN DrvRet(drv, op, a, b, "RuntimeError", << >>, FALSE, FALSE, << >>)
    ELSE DrvRet(drv, op, a, b, "ok", <<w>>, FALSE, ~answers, << >>)

\* ViciValve.set_number_of_positions accepts n
PositionsOk(n) == n % 2 = 0 /\ 2 <= n /\ n <= 40

\* ViciValve.connect
ViciConnect(portOk) ==
  /\ CanCall("ViciValve")
  /\ IF drv.connected
       THEN DrvRet(drv, "connect", NoArg, NoArg, "ok", << >>, FALSE, FALSE, << >>)
     ELSE IF ~portOk
       THEN DrvRet(drv, "connect", NoArg, NoArg, "SerialException", << >>,
                   FALSE, FALSE, << >>)
     ELSE IF ~PositionsOk(ValvePositions)
       THEN DrvRet(SerialOpened(drv), "connect", NoArg, NoArg, "ValueError",
                   << >>, TRUE, FALSE, << >>)
     ELSE IF ViciEnsureConnectedRaises(SerialOpened(drv))
       THEN DrvRet(SerialOpened(drv), "connect", NoArg, NoArg, "RuntimeError",
                   << >>, TRUE, FALSE, << >>)
     ELSE DrvRet([SerialOpened(drv) EXCEPT !.connected = TRUE], "connect",
                 NoArg, NoArg, "ok", <<Wire("NP", ValvePositions, NoArg)>>,
                 TRUE, FALSE, << >>)

\* ViciValve.stop: a no-op
ViciStop ==
  /\ CanCall("ViciValve")
  /\ DrvRet(drv, "stop", NoArg, NoArg, "ok", << >>, FALSE, FALSE, << >>)

\* ViciValve.close
ViciClose ==
  /\ CanCall("ViciValve")
  /\ DrvRet([drv EXCEPT !.ser = "None", !.connected = FALSE], "close",
            NoArg, NoArg, "ok", << >>, FALSE, FALSE, << >>)

\* ViciValve.move_home
ViciMoveHome(answers) ==
  /\ CanCall("ViciValve")
  /\ ViciSend("move_home", NoArg, NoArg, Wire("HM", NoArg, NoArg), answers)

\* ViciValve.go_to_position(pos)
ViciGoToPosition(pos, answers) ==
  /\ CanCall("ViciValve")
  /\ IF ValveRejects(pos)
       THEN DrvRet(drv, "go_to_position", pos, NoArg, "ValueError", << >>,
                   FALSE, FALSE, << >>)
       ELSE ViciSend("go_to_position", pos, NoArg, Wire("GO", pos, NoArg), answers)

\* ViciValve.check_current_position: no digit in the reply is an error
ViciCheckCurrentPosition(answers) ==
  /\ CanCall("ViciValve")
  /\ IF ViciEnsureConnectedRaises(drv) \/ answers
       THEN ViciSend("check_current_position", NoArg, NoArg,
                     Wire("CP", NoArg, NoArg), answers)
       ELSE DrvRet(drv, "check_current_position", NoArg, NoArg, "RuntimeError",
                   <<Wire("CP", NoArg, NoArg)>>, FALSE, TRUE, << >>)

\* ViciValve.check_firmware_version
ViciCheckFirmwareVersion(answers) ==
  /\ CanCall("ViciValve")
  /\ ViciSend("check_firmware_version", NoArg, NoArg, Wire("VR", NoArg, NoArg), answers)

\* ViciValve.move_clockwise(pos)
ViciMoveClockwise(pos, answers) ==
  /\ CanCall("ViciValve")
  /\ ViciSend("move_clockwise", pos, NoArg, Wire("CW", pos, NoArg), answers)

\* ViciValve.move_counterclockwise(pos)
ViciMoveCounterclockwise(pos, answers) ==
  /\ CanCall("ViciValve")
  /\ ViciSend("move_counterclockwise", pos, NoArg, Wire("CC", pos, NoArg), answers)

(***************************************************************************)
(* TC720: the frames and the lifecycle                                     *)
(***************************************************************************)
HexDigits ==
  <<"0", "1", "2", "3", "4", "5", "6", "7", "8", "9", "a", "b", "c", "d", "e", "f">>

\* ord(char) for the characters of a frame
Ord(ch) ==
  IF ch = "*" THEN 42
  ELSE IF ch = "\r" THEN 13
  ELSE IF ch = "-" THEN 45
  ELSE IF ch = "^" THEN 94
  ELSE LET i == CHOOSE k \in 1..16 : HexDigits[k] = ch
       IN  IF i <= 10 THEN 47 + i ELSE 86 + i

\* hex(n)[2:]
RECURSIVE HexStr(_)
HexStr(n) ==
  IF n < 16 THEN <<HexDigits[n + 1]>>
  ELSE HexStr(n \div 16) \o <<HexDigits[(n % 16) + 1]>>

\* str.zfill(width)
RECURSIVE ZFill(_, _)
ZFill(str, width) == IF Len(str) >= width THEN str ELSE ZFill(<<"0">> \o str, width)

\* format(n, '04x'): the sign of a negative number takes one of the four
\* columns
Format04x(n) == IF n < 0 THEN <<"-">> \o ZFill(HexStr(-n), 3) ELSE ZFill(HexStr(n), 4)

\* sum(ord(char) for char in chars)
RECURSIVE SumOrd(_)
SumOrd(chars) == IF chars = << >> THEN 0 ELSE Ord(Head(chars)) + SumOrd(Tail(chars))

\* char_list[1:7]
First6(char_list) ==
  IF Len(char_list) < 2 THEN << >>
  ELSE SubSeq(char_list, 2, IF Len(char_list) < 7 THEN Len(char_list) ELSE 7)

\* hex_sum[-2:]
LastTwo(str) == IF Len(str) <= 2 THEN str ELSE SubSeq(str, Len(str) - 1, Len(str))

\* a checksum that keeps the leading digits of the sum instead of the last
ChecksumLeadingDigits(char_list) ==
  <<"*">> \o First6(char_list)
          \o ZFill(SubSeq(HexStr(SumOrd(First6(char_list))), 1, 2), 2) \o <<"\r">>

\* TC720.calculate_checksum
calculate_checksum(char_list) ==
  <<"*">> \o First6(char_list)
          \o ZFill(LastTwo(HexStr(SumOrd(First6(char_list)))), 2) \o <<"\r">>

\* TC720.convert_temp_to_bstc, on temp_hundredths = int(temp_celsius * 100)
convert_temp_to_bstc(temp_hundredths) ==
  calculate_checksum(<<"*", "1", "c">> \o Format04x(temp_hundredths)
                       \o <<"XX", "XX", "\r">>)

\* TC720._build_query(cc)
BuildQuery(cc) ==
  calculate_checksum(<<"*">> \o cc \o <<"0", "0", "0", "0">> \o <<"XX", "XX", "\r">>)

\* the command codes of read_temperature: INPUT1, INPUT2
QueryCodes == {<<"0", "1">>, <<"0", "4">>}

\* the value of a hexadecimal digit
HexVal(ch) == (CHOOSE k \in 1..16 : HexDigits[k] = ch) - 1

\* int(str, 16): an optional sign and hexadecimal digits, ValueError otherwise
IntBase16(str) ==
  LET IsNumeral(t) == t # << >> /\ \A i \in 1..Len(t) : \E k \in 1..16 : HexDigits[k] = t[i]
      Val[i \in 0..Len(str)] ==
        IF i = 0 \/ str[i] = "-" THEN 0 ELSE 16 * Val[i - 1] + HexVal(str[i])
  IN  IF IsNumeral(str) THEN [ok |-> TRUE, value |-> Val[Len(str)]]
      ELSE IF str # << >> /\ str[1] = "-" /\ IsNumeral(Tail(str))
        THEN [ok |-> TRUE, value |-> -Val[Len(str)]]
      ELSE [ok |-> FALSE, value |-> 0]

\* read_temperature on the four payload characters: int(dddd, 16), read as a
\* signed 16-bit number of hundredths of a degree
DecodeHundredths(dddd) ==
  LET val == IntBase16(dddd)
  IN  IF ~val.ok THEN [result |-> "ValueError", value |-> 0]
      ELSE [result |-> "ok",
            value |-> IF val.value >= 32768 THEN val.value - 65536 ELSE val.value]

\* a reader that trusts the payload whatever the checksum field holds
ChecksumIgnored(resp) == TRUE

\* read_temperature: resp[5:7] equals format(sum(ord(c) for c in dddd) & 0xFF, '02x')
ChecksumMatches(resp) ==
  SubSeq(resp, 6, 7) = ZFill(HexStr(SumOrd(SubSeq(resp, 2, 5)) % 256), 2)

\* what read_temperature does with the bytes resp = ser.read(8)
ReadTemperatureReturns(resp) ==
  IF Len(resp) < 8 \/ resp[1] # "*"
    THEN [result |-> "IOError: Invalid response", value |-> 0]
  ELSE IF ~ChecksumMatches(resp)
    THEN [result |-> "IOError: Checksum mismatch", value |-> 0]
  ELSE DecodeHundredths(SubSeq(resp, 2, 5))

\* a connect that opens a new transport whatever the state of the old one
TcConnectReopens(portOk) ==
  /\ CanCall("TC720")
  /\ IF ~portOk
       THEN DrvRet(drv, "connect", NoArg, NoArg, "SerialException", << >>,
                   FALSE, FALSE, << >>)
       ELSE DrvRet([SerialOpened(drv) EXCEPT !.connected = TRUE], "connect",
                   NoArg, NoArg, "ok", << >>, TRUE, FALSE, << >>)

\* TC720.connect
TcConnect(portOk) ==
  /\ CanCall("TC720")
  /\ IF drv.ser = "open"
       THEN DrvRet([drv EXCEPT !.connected = TRUE], "connect", NoArg, NoArg,
                   "ok", << >>, FALSE, FALSE, << >>)
     ELSE IF ~portOk
       THEN DrvRet(drv, "connect", NoArg, NoArg, "SerialException", << >>,
                   FALSE, FALSE, << >>)
     ELSE DrvRet([SerialOpened(drv) EXCEPT !.connected = TRUE], "connect",
                 NoArg, NoArg, "ok", << >>, TRUE, FALSE, << >>)

\* TC720.close, called as op (close) or from stop
TcCloseAs(op) ==
  IF drv.ser = "None"
    THEN DrvRet(drv, op, NoArg, NoArg, "AttributeError", << >>, FALSE, FALSE, << >>)
    ELSE DrvRet([drv EXCEPT !.ser = "closed", !.connected = FALSE], op,
                NoArg, NoArg, "ok", << >>, FALSE, FALSE, << >>)

\* TC720.close
TcClose == CanCall("TC720") /\ TcCloseAs("close")

\* TC720.stop: prints the safe temperature and closes
TcStop == CanCall("TC720") /\ TcCloseAs("stop")

\* TC720.set_temperature(t)
TcSetTemperature(t) ==
  /\ CanCall("TC720")
  /\ IF TempRejects(t)
       THEN DrvRet(drv, "set_temperature", t, NoArg, "ValueError", << >>,
                   FALSE, FALSE, << >>)
     ELSE IF drv.ser # "open"
       THEN DrvRetF(drv, "set_temperature", t, NoArg, "RuntimeError", << >>,
                    FALSE, FALSE, << >>, convert_temp_to_bstc(t * 100))
     ELSE DrvRetF(drv, "set_temperature", t, NoArg, "ok",
                  <<Wire("*1c", t * 100, NoArg)>>, FALSE, FALSE, << >>,
                  convert_temp_to_bstc(t * 100))

\* TC720.read_temperature(sensor)
TcReadTemperature(cc, answers) ==
  /\ CanCall("TC720")
  /\ IF SerialRaises(drv) # "ok"
       THEN DrvRetF(drv, "read_temperature", NoArg, NoArg, SerialRaises(drv),
                    << >>, FALSE, FALSE, << >>, BuildQuery(cc))
       ELSE DrvRetF(drv, "read_temperature", NoArg, NoArg,
                    IF answers THEN "ok" ELSE "IOError",
                    <<Wire("*0", IF cc[2] = "1" THEN 1 ELSE 4, 0)>>, FALSE, ~answers,
                    << >>, BuildQuery(cc))

(***************************************************************************)
(* PhdUltraPump                                                            *)
(***************************************************************************)
\* PhdUltraPump.connect
PhdConnect(portOk) ==
  /\ CanCall("PhdUltraPump")
  /\ IF drv.connected
       THEN DrvRet(drv, "connect", NoArg, NoArg, "ok", << >>, FALSE, FALSE, << >>)
     ELSE IF ~portOk
       THEN DrvRet(drv, "connect", NoArg, NoArg, "SerialException", << >>,
                   FALSE, FALSE, << >>)
     ELSE DrvRet([SerialOpened(drv) EXCEPT !.connected = TRUE], "connect",
                 NoArg, NoArg, "ok", << >>, TRUE, FALSE, << >>)

\* PhdUltraPump.send(body): RuntimeError without a Serial object; the reply
\* is whatever has arrived after the pause, the empty string included
PhdSend(op, body, answers) ==
  IF drv.ser = "None"
    THEN DrvRet(drv, op, NoArg, NoArg, "RuntimeError", << >>, FALSE, FALSE, << >>)
  ELSE IF drv.ser = "closed"
    THEN DrvRet(drv, op, NoArg, NoArg, "SerialException", << >>, FALSE, FALSE, << >>)
  ELSE DrvRet(drv, op, NoArg, NoArg, "ok", <<Wire(body, NoArg, NoArg)>>,
              FALSE, ~answers, << >>)

\* PhdUltraPump.stop
PhdStop(answers) == CanCall("PhdUltraPump") /\ PhdSend("stop", "stop", answers)

\* PhdUltraPump.run
PhdRun(answers) == CanCall("PhdUltraPump") /\ PhdSend("run", "irun", answers)

\* PhdUltraPump.set_rate -> _set_rate_sync: send("irate <rate> ul/min")
PhdSetRate(rate, answers) ==
  /\ CanCall("PhdUltraPump")
  /\ IF drv.ser = "None"
       THEN DrvRet(drv, "set_rate", rate, NoArg, "RuntimeError", << >>,
                   FALSE, FALSE, << >>)
     ELSE IF drv.ser = "closed"
       THEN DrvRet(drv, "set_rate", rate, NoArg, "SerialException", << >>,
                   FALSE, FALSE, << >>)
     ELSE DrvRet(drv, "set_rate", rate, NoArg, "ok",
                 <<Wire("irate", rate, NoArg)>>, FALSE, ~answers, << >>)

\* PhdUltraPump.dispense -> _dispense_sync(vol_ul, rate_ul_min)
PhdDispense(vol, rate, answers) ==
  /\ CanCall("PhdUltraPump")
  /\ IF rate <= 0
       THEN DrvRet(drv, "dispense", vol, rate, "ValueError", << >>,
                   FALSE, FALSE, << >>)
     ELSE IF drv.ser = "None"
       THEN DrvRet(drv, "dispense", vol, rate, "RuntimeError", << >>,
                   FALSE, FALSE, << >>)
     ELSE IF drv.ser = "closed"
       THEN DrvRet(drv, "dispense", vol, rate, "SerialException", << >>,
                   FALSE, FALSE, << >>)
     ELSE DrvRet(drv, "dispense", vol, rate, "ok",
                 <<Wire("irate", rate, NoArg), Wire("cvolume", NoArg, NoArg),
                   Wire("tvolume", vol, NoArg), Wire("irun", NoArg, NoArg)>>,
                 FALSE, ~answers, << >>)

\* PhdUltraPump.close: closes an open port, never touches _connected
PhdClose ==
  /\ CanCall("PhdUltraPump")
  /\ DrvRet([drv EXCEPT !.ser = IF @ = "open" THEN "closed" ELSE @], "close",
            NoArg, NoArg, "ok", << >>, FALSE, FALSE, << >>)

(***************************************************************************)
(* GX281 and the callers that report its moves                             *)
(***************************************************************************)
XMIN == 0
XMAX == 700
YMIN == 0
YMAX == 380
ZMIN == 0
ZMAX == 125
SAFE_Z == 125

\* if v < lo: v = lo; if v > hi: v = hi
Clamp(v, lo, hi) == IF v < lo THEN lo ELSE IF v > hi THEN hi ELSE v

\* GX281._ensure_conn raises RuntimeError
GxEnsureConnRaises(d) == ~d.connected

\* GX281.move_xy 141-143: the Z-raise issued for a needle read at height z
GxRaise(z) ==
  IF z < SAFE_Z THEN <<Wire("SZ", Clamp(SAFE_Z, ZMIN, ZMAX), NoArg)>> ELSE << >>

\* needle height once the commands of GxRaise(z) are carried out
GxRaised(z) == IF GxRaise(z) = << >> THEN z ELSE GxRaise(z)[1][2]

\* GX281.move_xy 136-139, 145: the XY command for a request (x, y)
GxXyCommand(x, y) == Wire("SX", Clamp(x, XMIN, XMAX), Clamp(y, YMIN, YMAX))

\* the two GX281 classes of the repository: devices/devices/
\* liquid_handler_devices/gx_liquid_handlers.py ("GX281") and devices/
\* liquid_handler_devices/gx_liquid_handlers.py ("GX281Legacy", the one
\* methods.py imports); connect, close, home and move_z are the same code
CanCallGx == CanCall("GX281") \/ CanCall("GX281Legacy")

\* GX281.connect
GxConnect(libOk, answers) ==
  /\ CanCallGx
  /\ IF drv.connected
       THEN DrvRet(drv, "connect", NoArg, NoArg, "ok", << >>, FALSE, FALSE, << >>)
     ELSE IF ~libOk
       THEN DrvRet(drv, "connect", NoArg, NoArg, "RuntimeError", << >>,
                   FALSE, FALSE, << >>)
     ELSE IF ~answers
       THEN DrvRet(drv, "connect", NoArg, NoArg, "RuntimeError",
                   <<Wire("%", NoArg, NoArg)>>, TRUE, TRUE, << >>)
     ELSE DrvRet([drv EXCEPT !.connected = TRUE], "connect", NoArg, NoArg, "ok",
                 <<Wire("%", NoArg, NoArg)>>, TRUE, FALSE, << >>)

\* GX281.close
GxClose ==
  /\ CanCallGx
  /\ DrvRet([drv EXCEPT !.connected = FALSE], "close", NoArg, NoArg, "ok",
            << >>, FALSE, FALSE, << >>)

\* GX281.stop: park Z, swallowing every exception
GxStop(answers) ==
  /\ CanCall("GX281")
  /\ IF GxEnsureConnRaises(drv)
       THEN DrvRet(drv, "stop", NoArg, NoArg, "ok", << >>, FALSE, FALSE, << >>)
     ELSE IF ~answers
       THEN DrvRet(drv, "stop", NoArg, NoArg, "ok", <<Wire("Z", NoArg, NoArg)>>,
                   FALSE, TRUE, << >>)
     ELSE DrvRet([drv EXCEPT !.z = IF @ # SAFE_Z THEN Clamp(SAFE_Z, ZMIN, ZMAX) ELSE @],
                 "stop", NoArg, NoArg, "ok",
                 <<Wire("Z", NoArg, NoArg)>> \o
                   (IF drv.z # SAFE_Z
                      THEN <<Wire("SZ", Clamp(SAFE_Z, ZMIN, ZMAX), NoArg)>> ELSE << >>),
                 FALSE, FALSE, << >>)

\* GX281.home; zh: the height the needle is at after homing
GxHome(zh) ==
  /\ CanCallGx
  /\ IF GxEnsureConnRaises(drv)
       THEN DrvRet(drv, "home", NoArg, NoArg, "RuntimeError", << >>, FALSE, FALSE, << >>)
       ELSE DrvRet([drv EXCEPT !.z = zh], "home", NoArg, NoArg, "ok",
                   <<Wire("SH", NoArg, NoArg)>>, FALSE, FALSE, << >>)

\* GX281.get_z
GxGetZ(answers) ==
  /\ CanCall("GX281")
  /\ IF GxEnsureConnRaises(drv)
       THEN DrvRet(drv, "get_z", NoArg, NoArg, "RuntimeError", << >>, FALSE, FALSE, << >>)
       ELSE DrvRet(drv, "get_z", NoArg, NoArg, IF answers THEN "ok" ELSE "ValueError",
                   <<Wire("Z", NoArg, NoArg)>>, FALSE, ~answers, << >>)

\* GX281.move_z(z) called as op; report: what the caller logs after it
GxMoveZAs(op, z, report) ==
  IF GxEnsureConnRaises(drv)
    THEN DrvRet(drv, op, z, NoArg, "RuntimeError", << >>, FALSE, FALSE, << >>)
    ELSE DrvRet([drv EXCEPT !.z = Clamp(z, ZMIN, ZMAX)], op, z, NoArg, "ok",
                <<Wire("SZ", Clamp(z, ZMIN, ZMAX), NoArg)>>, FALSE, FALSE, report)

\* GX281.move_xy(x, y) called as op by a caller that logs report after it
\* and whose log write ends as logResult
GxMoveXyAs(op, x, y, answers, report, logResult) ==
  IF GxEnsureConnRaises(drv)
    THEN DrvRet(drv, op, x, y, "RuntimeError", << >>, FALSE, FALSE, << >>)
  ELSE IF ~answers
    THEN DrvRet(drv, op, x, y, "ValueError",
                <<Wire("Z", NoArg, NoArg)>>, FALSE, TRUE, << >>)
  ELSE DrvRet([drv EXCEPT !.z = GxRaised(@)], op, x, y, logResult,
              <<Wire("Z", NoArg, NoArg)>> \o GxRaise(drv.z) \o <<GxXyCommand(x, y)>>,
              FALSE, FALSE, IF logResult = "ok" THEN report ELSE << >>)

\* GX281.move_z(z)
GxMoveZ(z) == CanCallGx /\ GxMoveZAs("move_z", z, << >>)

\* GX281.move_xy(x, y)
GxMoveXy(x, y, answers) ==
  /\ CanCall("GX281")
  /\ GxMoveXyAs("move_xy", x, y, answers, << >>, "ok")

\* legacy GX281.get_z: immediate() returns bytes and re.findall is given a
\* str pattern, which raises TypeError
LegacyGxGetZ ==
  /\ CanCall("GX281Legacy")
  /\ IF GxEnsureConnRaises(drv)
       THEN DrvRet(drv, "get_z", NoArg, NoArg, "RuntimeError", << >>, FALSE, FALSE, << >>)
       ELSE DrvRet(drv, "get_z", NoArg, NoArg, "TypeError",
                   <<Wire("Z", NoArg, NoArg)>>, FALSE, FALSE, << >>)

\* legacy GX281.stop: the exception of get_z is swallowed, nothing is parked
LegacyGxStop ==
  /\ CanCall("GX281Legacy")
  /\ DrvRet(drv, "stop", NoArg, NoArg, "ok",
            IF GxEnsureConnRaises(drv) THEN << >> ELSE <<Wire("Z", NoArg, NoArg)>>,
            FALSE, FALSE, << >>)

\* legacy GX281.move_xy(x, y) called as op by a caller that first
\* transmitted pre and logs report after it: the Z check sits in a
\* try/except that swallows the exception of get_z, and the XY command is
\* sent all the same
LegacyGxMoveXyAs(op, x, y, pre, report) ==
  IF GxEnsureConnRaises(drv)
    THEN DrvRet(drv, op, x, y, "RuntimeError", << >>, FALSE, FALSE, << >>)
    ELSE DrvRet([drv EXCEPT !.z = IF pre = << >> THEN @ ELSE pre[1][2]], op, x, y, "ok",
                pre \o <<Wire("Z", NoArg, NoArg)>> \o <<GxXyCommand(x, y)>>,
                FALSE, FALSE, report)

\* legacy GX281.move_xy(x, y)
LegacyGxMoveXy(x, y) ==
  /\ CanCall("GX281Legacy")
  /\ LegacyGxMoveXyAs("move_xy", x, y, << >>, << >>)

\* methods.py 213-216: execute_gx281 'move_z_height' logs the height it asked
ExecuteGx281MoveZHeight(z) ==
  /\ CanCall("GX281Legacy")
  /\ GxMoveZAs("execute_gx281.move_z_height", z, <<z>>)

\* methods.py 219-231: execute_gx281 'move_xy' raises the needle to 125,
\* then calls move_xy and logs the coordinates it asked
ExecuteGx281MoveXy(x, y) ==
  /\ CanCall("GX281Legacy")
  /\ LegacyGxMoveXyAs("execute_gx281.move_xy", x, y,
                      <<Wire("SZ", Clamp(125, ZMIN, ZMAX), NoArg)>>, <<x, y>>)

\* experimental_runner.py 168-170: _do_gx281 'move_xy' calls move_xy and
\* then writes through self.log, which does not exist
DoGx281MoveXy(x, y, answers) ==
  /\ CanCall("GX281")
  /\ GxMoveXyAs("_do_gx281.move_xy", x, y, answers, <<x, y>>, "AttributeError")

(***************************************************************************)
(* ender3 (the object exists with its port open: __init__ opens it)        *)
(***************************************************************************)
\* what the printer does with a line: answers ok, answers error, or sends
\* nothing (readline then times out with an empty line)
Ender3Answers == {"ok", "error", "silent"}

\* the read loop of cmd and location: an empty line means try again
Ender3ReadLoop(ans) ==
  IF ans = "silent" THEN "hang" ELSE IF ans = "error" THEN "RuntimeError" ELSE "ok"

\* ender3.cmd(line)
Ender3Cmd(ans) ==
  /\ CanCall("ender3")
  /\ IF drv.ser # "open"
       THEN DrvRet(drv, "cmd", NoArg, NoArg, "SerialException", << >>,
                   FALSE, FALSE, << >>)
       ELSE DrvRet(drv, "cmd", NoArg, NoArg, Ender3ReadLoop(ans),
                   <<Wire("M400", NoArg, NoArg)>>, FALSE, ans = "silent", << >>)

\* ender3.location
Ender3Location(ans) ==
  /\ CanCall("ender3")
  /\ IF drv.ser # "open"
       THEN DrvRet(drv, "location", NoArg, NoArg, "SerialException", << >>,
                   FALSE, FALSE, << >>)
       ELSE DrvRet(drv, "location", NoArg, NoArg, Ender3ReadLoop(ans),
                   <<Wire("M114", NoArg, NoArg)>>, FALSE, ans = "silent", << >>)

\* ender3.close
Ender3Close ==
  /\ CanCall("ender3")
  /\ DrvRet([drv EXCEPT !.ser = "closed"], "close", NoArg, NoArg, "ok",
            << >>, FALSE, FALSE, << >>)

(***************************************************************************)
(* Specification of one driver object under any sequence of calls.         *)
(***************************************************************************)
DrvKinds == {"ViciValve", "TC720", "PhdUltraPump", "GX281", "GX281Legacy", "ender3"}

\* heights the needle can be at when the object is created
GxZs == {0, 80, 125}

\* arguments of the calls
PosInputs == {0, 3, 6, 7, 41}
TurnInputs == {NoArg, 2, 41}
TempInputs == {-1, 0, 37, 100, 101}
XInputs == {-5, 120, 705}
YInputs == {-5, 50, 385}
PhdRateInputs == {-100, 0, 1000}
PhdVolumeInputs == {500}
ZInputs == {-3, 80, 130}

\* the object after __init__
NewDrv(kind, z) ==
  [kind |-> kind, connected |-> FALSE,
   ser |-> IF kind = "ender3" THEN "open" ELSE "None",
   opens |-> IF kind = "ender3" THEN 1 ELSE 0, z |-> z]

\* no script runs and the registry is not used
RunIdle ==
  /\ impl = "MR"
  /\ idx = 0
  /\ cmd = NoCmd
  /\ pc = "start"
  /\ threads = << >>
  /\ jobs = [h \in Handles |-> NoJob]
  /\ log = [i \in 0..MaxCmds |-> << >>]
  /\ mainIn = NoDev
  /\ targets = << >>
  /\ touched = {}
  /\ closeCalled = {}
  /\ exc = NoExc
  /\ paused = FALSE
  /\ dispatched = << >>
  /\ registry = EmptyRegistry
  /\ regCall = NoCall
  /\ regCount = 0

InitDrv ==
  /\ RunIdle
  /\ drv \in {NewDrv(k, 0) : k \in DrvKinds}
            \cup {NewDrv(k, z) : k \in {"GX281", "GX281Legacy"}, z \in GxZs}
  /\ drvCall = NoDrvCall
  /\ drvCount = 0
  /\ frame = << >>
  /\ m6 = NoM6
  /\ calc = NoCalc

NextDrv ==
  \/ \E portOk \in BOOLEAN : ViciConnect(portOk)
  \/ ViciStop
  \/ ViciClose
  \/ \E answers \in BOOLEAN : ViciMoveHome(answers)
  \/ \E pos \in PosInputs, answers \in BOOLEAN : ViciGoToPosition(pos, answers)
  \/ \E answers \in BOOLEAN : ViciCheckCurrentPosition(answers)
  \/ \E answers \in BOOLEAN : ViciCheckFirmwareVersion(answers)
  \/ \E pos \in TurnInputs, answers \in BOOLEAN : ViciMoveClockwise(pos, answers)
  \/ \E pos \in TurnInputs, answers \in BOOLEAN : ViciMoveCounterclockwise(pos, answers)
  \/ \E portOk \in BOOLEAN : TcConnect(portOk)
  \/ TcClose
  \/ TcStop
  \/ \E t \in TempInputs : TcSetTemperature(t)
  \/ \E cc \in QueryCodes, answers \in BOOLEAN : TcReadTemperature(cc, answers)
  \/ \E portOk \in BOOLEAN : PhdConnect(portOk)
  \/ \E answers \in BOOLEAN : PhdStop(answers)
  \/ \E answers \in BOOLEAN : PhdRun(answers)
  \/ PhdClose
  \/ \E rate \in PhdRateInputs, answers \in BOOLEAN : PhdSetRate(rate, answers)
  \/ \E vol \in PhdVolumeInputs, rate \in PhdRateInputs, answers \in BOOLEAN :
       PhdDispense(vol, rate, answers)
  \/ \E libOk \in BOOLEAN, answers \in BOOLEAN : GxConnect(libOk, answers)
  \/ GxClose
  \/ \E answers \in BOOLEAN : GxStop(answers)
  \/ \E zh \in GxZs : GxHome(zh)
  \/ \E answers \in BOOLEAN : GxGetZ(answers)
  \/ \E z \in ZInputs : GxMoveZ(z)
  \/ \E x \in XInputs, y \in YInputs, answers \in BOOLEAN : GxMoveXy(x, y, answers)
  \/ LegacyGxGetZ
  \/ LegacyGxStop
  \/ \E x \in XInputs, y \in YInputs : LegacyGxMoveXy(x, y)
  \/ \E z \in ZInputs : ExecuteGx281MoveZHeight(z)
  \/ \E x \in XInputs, y \in YInputs : ExecuteGx281MoveXy(x, y)
  \/ \E x \in XInputs, y \in YInputs, answers \in BOOLEAN : DoGx281MoveXy(x, y, answers)
  \/ \E ans \in Ender3Answers : Ender3Cmd(ans)
  \/ \E ans \in Ender3Answers : Ender3Location(ans)
  \/ Ender3Close

SpecDrv == InitDrv /\ [][NextDrv]_vars

(***************************************************************************)
(* Specification of the TC720 frame builders on every setpoint the driver  *)
(* accepts and on both queries.                                            *)
(***************************************************************************)
\* int(temp_celsius * 100) for the setpoints set_temperature accepts
Hundredths == (TempMin * 100)..(TempMax * 100)

\* set_temperature builds the setpoint frame
BuildSetpointFrame(h) ==
  /\ frame = << >>
  /\ frame' = convert_temp_to_bstc(h)
  /\ UNCHANGED <<runVars, regVars, drv, drvCall, drvCount, m6, calc>>

\* read_temperature builds the query frame
BuildQueryFrame(cc) ==
  /\ frame = << >>
  /\ frame' = BuildQuery(cc)
  /\ UNCHANGED <<runVars, regVars, drv, drvCall, drvCount, m6, calc>>

InitChk == RunIdle /\ DrvIdle

(***************************************************************************)
(* VICI_M6_Pumps, the stepper pump. Flow rates are in hundredths of a      *)
(* uL/min (41.33 uL/min = 4133); steps per uL are <<whole, millionths>>    *)
(***************************************************************************)
\* set_flow_rate: calibration_values[direction].get(flow_rate_min), or the
\* constant 2606.371104 when the table has no entry
StepsPerUl(direction, r100) ==
  LET dispensing == [r \in {100000} |-> <<2494, 720000>>]
                      @@ [r \in {150000} |-> <<2584, 774000>>]
                      @@ [r \in {20000, 4133} |-> <<2426, 62000>>]
                      @@ [r \in {200000} |-> <<2440, 881000>>]
      aspirating == [r \in {100000} |-> <<2606, 371104>>]
                      @@ [r \in {150000} |-> <<3166, 612000>>]
                      @@ [r \in {20000, 4133} |-> <<2451, 378376>>]
                      @@ [r \in {200000} |-> <<2955, 59000>>]
      table == IF direction = "dispensing" THEN dispensing ELSE aspirating
  IN  IF r100 \in DOMAIN table THEN table[r100] ELSE <<2606, 371104>>

\* a velocity rounded to the nearest step per second
M6VelocityRounded(spu, r100) ==
  LET r == IF r100 < 0 THEN -r100 ELSE r100
      product == spu[1] * r
                   + (spu[2] * (r \div 100) + (spu[2] * (r % 100)) \div 100) \div 10000
  IN  (product + 3000) \div 6000

\* set_flow_rate: abs(int(steps_per_ul * flow_rate_sec)), flow_rate_sec =
\* flow_rate_min / 60; int() drops the fraction
M6Velocity(spu, r100) ==
  LET r == IF r100 < 0 THEN -r100 ELSE r100
      product == spu[1] * r
                   + (spu[2] * (r \div 100) + (spu[2] * (r % 100)) \div 100) \div 10000
  IN  product \div 6000

\* pump_solution: int(steps_per_ul * volume), volume >= 0 in uL
M6TotalMicrosteps(spu, volume) == spu[1] * volume + (spu[2] * volume) \div 1000000

\* a pump_solution without the test of the flow rate
M6RejectsNoRate(r100) == FALSE

\* pump_solution: if self.flow_rate_sec == 0: raise ValueError
M6RejectsRate(r100) == r100 = 0

\* one call on the pump object
M6Ret(obj, op, result, sent) ==
  /\ m6' = [obj EXCEPT !.op = op, !.result = result, !.sent = sent,
                       !.calls = m6.calls + 1]
  /\ UNCHANGED <<runVars, regVars, drv, drvCall, drvCount, frame, calc>>

\* VICI_M6_Pumps.__init__ and _initialize_parameters: serial.Serial(port)
\* opens the port or the object is left without one. pos is the position
\* counter of the motor, which the constructor neither reads nor sets
M6New(portOk, p) ==
  /\ m6 = NoM6
  /\ m6' = [op |-> "__init__", result |-> "ok", sent |-> << >>, calls |-> 0,
            ser |-> IF portOk THEN "open" ELSE "None",
            a |-> 0, flow |-> 10000, direction |-> "aspirating", mult |-> -1,
            spu |-> <<5065, 38939>>, VM |-> 76800, profiled |-> FALSE,
            pos |-> p]
  /\ UNCHANGED <<runVars, regVars, drv, drvCall, drvCount, frame, calc>>

\* VICI_M6_Pumps.set_flow_rate(flow_rate_min, direction)
M6SetFlowRate(r100, direction) ==
  /\ m6 # NoM6 /\ m6.calls < MaxM6Calls
  /\ IF direction \notin {"aspirating", "dispensing"}
       THEN M6Ret([m6 EXCEPT !.flow = r100, !.profiled = FALSE],
                  "set_flow_rate", "ok", << >>)
       ELSE M6Ret([m6 EXCEPT !.flow = r100, !.profiled = TRUE,
                             !.direction = direction,
                             !.mult = IF direction = "dispensing" THEN 1 ELSE -1,
                             !.spu = StepsPerUl(direction, r100),
                             !.VM = M6Velocity(StepsPerUl(direction, r100), r100)],
                  "set_flow_rate", "ok", << >>)

\* VICI_M6_Pumps.pump_solution(volume). get_current_position returns the
\* number in the answer to PR P, or 0 when the answer holds none (parsed
\* false). P=.. sets the position counter, MA=.. moves to an absolute
\* position; the wait of pump_time + 2 s lets the move end, and stop()
\* (SL 0) leaves the counter where the move ended. Every exception is caught
\* and printed. The polls of the progress loop are written as one PR P
M6PumpSolution(volume, parsed) ==
  /\ m6 # NoM6 /\ m6.calls < MaxM6Calls
  /\ IF m6.ser # "open"
       THEN M6Ret([m6 EXCEPT !.a = volume], "pump_solution", "RuntimeError", << >>)
     ELSE IF M6RejectsRate(m6.flow)
       THEN M6Ret([m6 EXCEPT !.a = volume], "pump_solution", "ValueError", << >>)
     ELSE M6Ret([m6 EXCEPT !.a = volume,
                           !.pos = m6.mult * M6TotalMicrosteps(m6.spu, volume)],
                "pump_solution", "ok",
                <<Wire("SL", 0, NoArg), Wire("PR P", NoArg, NoArg),
                  Wire("A", 1000000, NoArg), Wire("D", 1000000, NoArg),
                  Wire("VI", 1000, NoArg), Wire("VM", m6.VM, NoArg),
                  Wire("P", IF parsed THEN m6.pos ELSE 0, NoArg),
                  Wire("PR P", NoArg, NoArg),
                  Wire("MA", m6.mult * M6TotalMicrosteps(m6.spu, volume), NoArg),
                  Wire("PR AL", NoArg, NoArg), Wire("PR P", NoArg, NoArg),
                  Wire("SL", 0, NoArg), Wire("PR P", NoArg, NoArg)>>)

\* flow rates: negative, zero, the 41.33 of the table, calibrated and not
RateInputs == {-10000, 0, 4133, 20000, 75000, 100000, 150000, 200000}
DirectionInputs == {"aspirating", "dispensing", "sideways"}
\* volumes whose double-precision product with every steps-per-uL value has
\* the integer part of the exact product
VolumeInputs == {0, 500, 1000}
\* positions the motor may stand at when the object is made
StartInputs == {0, 1200}

InitM6 == RunIdle /\ DrvIdle

NextM6 ==
  \/ \E portOk \in BOOLEAN, p \in StartInputs : M6New(portOk, p)
  \/ \E r \in RateInputs, d \in DirectionInputs : M6SetFlowRate(r, d)
  \/ \E v \in VolumeInputs, parsed \in BOOLEAN : M6PumpSolution(v, parsed)

SpecM6 == InitM6 /\ [][NextM6]_vars

(***************************************************************************)
(* Specification of the functions that depend on their arguments only: one *)
(* call on one argument per behaviour                                      *)
(***************************************************************************)
\* a function was called on x and returned (or raised) y
Called(f, x, y) ==
  /\ calc = NoCalc
  /\ calc' = [f |-> f, in |-> x, out |-> y]
  /\ UNCHANGED <<runVars, regVars, drv, drvCall, drvCount, frame, m6>>

\* payloads of a response: 25.00, -5.00, the two ends of the signed range,
\* zero, a signed numeral, a payload with a stray character
RespPayloads ==
  {<<"0", "9", "c", "4">>, <<"f", "e", "0", "c">>, <<"8", "0", "0", "0">>,
   <<"7", "f", "f", "f">>, <<"0", "0", "0", "0">>, <<"-", "1", "f", "4">>,
   <<"0", "^", "0", "0">>}

\* what ser.read(8) can return: nothing, a short read, or eight bytes with
\* any checksum field
RespInputs ==
  {<< >>, <<"*", "0", "9", "c", "4", "4", "0">>}
    \cup {<<h>> \o p \o <<HexDigits[i], HexDigits[j], "^">> :
            h \in {"*", "^"}, p \in RespPayloads, i \in 1..16, j \in 1..16}

\* read_temperature receives resp
TcReadTemperatureGets(resp) ==
  Called("read_temperature", resp, ReadTemperatureReturns(resp))

\* numbers of hundredths in and around the signed 16-bit range of the field
Int16Inputs ==
  (-4200..-3990) \cup (-300..300) \cup {-32768, -32767, 2500, 10000, 32767}

\* convert_temp_to_bstc, then the value field of the frame (characters 3..6
\* after the '*') decoded as read_temperature decodes a payload
TcEncodeDecode(h) ==
  LET field == SubSeq(convert_temp_to_bstc(h), 4, 7)
  IN  Called("convert_temp_to_bstc", h,
             [field |-> field, decoded |-> DecodeHundredths(field)])
\* the tables of the branches of __init__ (tenths of a millimetre)
Rack(rack_layout) ==
  LET n == IF rack_layout[1] = "int" THEN rack_layout[2] ELSE 0
      custom == rack_layout = <<"str", 304>>
  IN  [X |-> IF n = 204 THEN <<0, 318, 636>>
             ELSE IF n = 207 THEN <<0, 193, 386, 579, 772>>
             ELSE IF n = 209 THEN <<0, 166, 332, 498, 664, 830>>
             ELSE IF custom THEN <<305, 715, 1125, 1535, 1945>>
             ELSE << >>,
       Y |-> IF n = 204
               THEN <<1034, 1352, 1669, 1987, 2304, 2621, 2939, 3256, 3574>>
             ELSE IF n = 207
               THEN <<950, 1143, 1336, 1529, 1722, 1915, 2108, 2301, 2494, 2687,
                      2880, 3073, 3266, 3459, 3650>>
             ELSE IF n = 209 THEN [i \in 1..16 |-> 930 + 177 * (i - 1)]
             ELSE IF custom THEN <<305, 715, 1125, 1535>>
             ELSE << >>,
       Z |-> IF n = 204 THEN 600 ELSE IF n = 207 THEN 1150
             ELSE IF n = 209 THEN 860 ELSE IF custom THEN 100 ELSE 0,
       \* None is written 0
       num_wells |-> IF n = 204 THEN 27 ELSE IF n = 207 THEN 75
                     ELSE IF n = 209 THEN 96 ELSE IF custom THEN 20 ELSE 0,
       x_offset |-> IF n = 204 THEN <<222, 1418, 2613, 3809, 5005, 6200>>
                    ELSE IF n = 207 THEN <<150, 1346, 2542, 3738, 4934, 6130>>
                    ELSE IF n = 209 THEN <<130, 1326, 2522, 3718, 4914, 6110>>
                    ELSE << >>,
       stagger |-> IF n = 209 THEN 85 ELSE 0]

StaggeredEveryColumn(rack_layout, x_index) == rack_layout = <<"int", 209>>

\* lines 56-63: only the 209 branch staggers, and there the columns of odd
\* x_index
Staggered(rack_layout, x_index) ==
  rack_layout = <<"int", 209>> /\ x_index % 2 = 1

\* Bed_Layout(bed_number, rack_layout): __init__ and the set_wells it ends
\* with. rack_layout is the integer n, <<"int", n>>, or the string 'n',
\* <<"str", n>>; lengths are in tenths of a millimetre
Bed_Layout(bed_number, rack_layout) ==
  LET r == Rack(rack_layout)
      \* x_offset[bed_number - 1]: a negative index counts from the end
      k == bed_number - 1
      offset == IF r.x_offset = << >> THEN 0
                ELSE r.x_offset[IF k >= 0 THEN k + 1 ELSE k + 7]
      coordinates ==
        [c \in 1..(Len(r.X) * Len(r.Y)) |->
           LET x_index == (c - 1) \div Len(r.Y)
               y == r.Y[((c - 1) % Len(r.Y)) + 1]
           IN  <<r.X[x_index + 1] + offset,
                 IF Staggered(rack_layout, x_index) THEN y + r.stagger ELSE y>>]
      Raised(e) == [result |-> e, num_wells |-> 0, coordinates |-> << >>,
                    wells |-> << >>]
  IN  IF r.x_offset # << >> /\ k \notin -6..5 THEN Raised("IndexError")
      \* set_wells
      ELSE IF rack_layout \notin {<<"int", 204>>, <<"int", 207>>, <<"int", 209>>,
                                  <<"int", 304>>}
        THEN Raised("ValueError")
      ELSE IF r.num_wells = 0 THEN Raised("TypeError")
      ELSE IF Len(coordinates) > r.num_wells THEN Raised("KeyError")
      ELSE [result |-> "ok", num_wells |-> r.num_wells,
            coordinates |-> coordinates,
            wells |-> [i \in 1..r.num_wells |->
                         IF i <= Len(coordinates)
                           THEN <<coordinates[i][1], coordinates[i][2], r.Z>>
                           ELSE <<0, 0, 0>>]]

\* the rack types a caller can name, and bed numbers in and around 1..6
RackInputs ==
  {<<"int", 204>>, <<"int", 207>>, <<"int", 209>>, <<"int", 304>>,
   <<"str", 304>>, <<"int", 205>>}
BedInputs == -1..8

\* Bed_Layout(bed_number, rack_layout) is constructed
NewBedLayout(bed_number, rack_layout) ==
  Called("Bed_Layout", <<bed_number, rack_layout>>,
         Bed_Layout(bed_number, rack_layout))

InitCalc == RunIdle /\ DrvIdle

NextCalc ==
  \/ \E resp \in RespInputs : TcReadTemperatureGets(resp)
  \/ \E h \in Int16Inputs : TcEncodeDecode(h)
  \/ \E b \in BedInputs, r \in RackInputs : NewBedLayout(b, r)

SpecCalc == InitCalc /\ [][NextCalc]_vars

NextChk ==
  \/ \E h \in Hundredths : BuildSetpointFrame(h)
  \/ \E cc \in QueryCodes : BuildQueryFrame(cc)

SpecChk == InitChk /\ [][NextChk]_vars


(***************************************************************************)
(* Properties.                                                             *)
(***************************************************************************)
Range(f) == {f[k] : k \in 1..Len(f)}

InBarrier == pc \in {"join", "final"}

\* C1: wait_for_pumps is left only when every background operation launched
\* before it has finished, successfully or not, and it leaves
\* self._pump_threads empty, so that later launches form a fresh batch.
C1_BarrierIsTotal ==
  [][ (InBarrier /\ ~InBarrier')
        => /\ \A h \in Handles : ~Alive(h)
           /\ \A h \in Range(threads) : jobs[h].st \in {"ok", "err", "died"}
           /\ threads' = << >> ]_vars

\* a SYNC row has returned after joining a job that failed and one that
\* succeeded, and the list is empty
C1_Witness ==
  /\ impl = "GEM" /\ pc = "loop" /\ IsSync(cmd)
  /\ log[idx] = <<"All pumps finished">>
  /\ threads = << >>
  /\ \E h1, h2 \in 1..(idx - 1) :
       /\ log[h1] = <<"started", "Error in thread">>
       /\ log[h2] = <<"started", "done">>

\* C2: after launching a pump operation the dispatcher goes on: the step
\* that follows the launch writes the "started" record and returns to the
\* loop for the next command, whether or not the operation has finished.
C2_LaunchDoesNotStopDispatcher ==
  [][ pc = "started" => pc' \in {"started", "loop"} ]_vars

\* C3: a background operation always ends inside its own handler: its
\* outcome (success or the caught exception) is written as one record of
\* its row, the thread does not end with an exception of its own, and the
\* control thread is where it was.
C3_JobFailureIsCaughtAndLogged ==
  [][ \A h \in Handles :
        (Alive(h) /\ ~Alive(h)')
          => /\ jobs'[h].st \in {"ok", "err"}
             /\ Len(log'[h]) = Len(log[h]) + 1
             /\ jobs'[h].st = "err" => log'[h][Len(log'[h])] = "Error in thread"
             /\ pc' = pc /\ exc' = exc ]_vars

\* C4: when an exception of a driver call leaves the dispatch in the control
\* thread, the run ends with no later row taken, the fatal record written
\* and close() invoked on every device.
C4_AbortLogsAndClosesAll ==
  (pc \in {"done", "raised"} /\ exc.site \in {"validation", "driver"})
    => /\ pc = "done"
       /\ log[idx] # << >> /\ log[idx][Len(log[idx])] = "Experiment failed"
       /\ closeCalled = Devices

\* C5: no two operations are inside the driver of the same device at once.
C5_ExclusiveDeviceOwnership ==
  \A d \in Devices : Cardinality(InDriver(d)) <= 1

\* C6: a validation error of a synchronous driver call is turned into a
\* failure record of the row at the dispatcher, which goes on with the next
\* row.
C6_ValidationErrorIsLoggedAndRunContinues ==
  [][ (pc = "call" /\ ValidationError(cmd) /\ pc' # "call")
        => /\ pc' \in {"loop", "targets"}
           /\ Len(log'[idx]) = Len(log[idx]) + 1
           /\ exc' = NoExc ]_vars

\* C7: rows are handed to the dispatcher in list order, none skipped and
\* none repeated; a run that ends without an exception has dispatched every
\* row it took; and when the next row is taken no synchronous command is
\* still inside a driver or has targets left to call.
C7_DispatchInListOrder ==
  /\ \A k \in 1..Len(dispatched) : dispatched[k] = k
  /\ Len(dispatched) \in {idx - 1, idx}
  /\ Len(dispatched) = idx - 1 => pc \in {"pause", "raised"}
  /\ (pc = "done" /\ exc = NoExc) => Len(dispatched) = idx
  /\ pc \in {"loop", "pause", "dispatch"} => (mainIn = NoDev /\ targets = << >>)

\* a run of MaxCmds rows has ended normally with a job launched by an
\* earlier row than the last
C7_Witness ==
  /\ pc = "done" /\ exc = NoExc
  /\ idx = MaxCmds /\ Len(dispatched) = MaxCmds
  /\ \E h \in 1..(MaxCmds - 1) : log[h] = <<"started", "done">>

\* C8: while the pause flag is set at the check, no row is dispatched and
\* the run stays at the check; the row is dispatched once the flag is
\* cleared.
C8_PauseHoldsTheRow ==
  [][ (pc = "pause" /\ paused)
        => (pc' = "pause" /\ idx' = idx /\ dispatched' = dispatched /\ exc' = NoExc) ]_vars

\* C9: a Pump, valve, temperature or liquid-handler row whose id names no
\* device of its category invokes no operation on any device.
C9_UnknownIdTouchesNoDevice ==
  (/\ cmd.id \in UnknownIds
   /\ cmd.comp \in {"Pump", "Temperature", "GX-281"} \cup ValveComponents)
    => (touched = {} /\ mainIn = NoDev /\ jobs[idx].st = "none")

\* C10: register with a name already present in the category raises
\* KeyError and leaves the registry as it was; no register call changes the
\* device an existing name maps to.
C10_RegisterRejectsDuplicate ==
  [][ (regCall'.op = "register" /\ regCount' = regCount + 1)
        => /\ \A c \in Categories : \A n \in RegNames :
                DictHas(registry[c], n)
                  => DictGet(registry'[c], n) = DictGet(registry[c], n)
           /\ (/\ IsDevice(regCall'.dev)
               /\ regCall'.cat \in Categories
               /\ DictHas(registry[regCall'.cat], regCall'.name))
                => (regCall'.result = "KeyError" /\ registry' = registry) ]_vars

\* a second device offered under a registered name has been refused
C10_Witness ==
  /\ regCall.op = "register" /\ regCall.result = "KeyError"
  /\ regCall.cat \in Categories /\ IsDevice(regCall.dev)
  /\ DictHas(registry[regCall.cat], regCall.name)
  /\ DictGet(registry[regCall.cat], regCall.name) # regCall.dev

\* C11 (as stated): every get and list_names call, whatever its category
\* and name, returns without raising and leaves the registry unchanged; a
\* get of a name that is not registered returns None and a list_names of
\* an empty category returns the empty list.
C11_GetListNamesNeverFail ==
  [][ (regCall'.op \in {"get", "list_names"} /\ regCount' = regCount + 1)
        => /\ regCall'.result = "ok"
           /\ registry' = registry ]_vars

\* C11 (amended): for the six categories of Category the calls never raise
\* and never change the registry, a missed get returns None and a
\* list_names of an empty category returns the empty list; for any other
\* category they raise KeyError, again without changing the registry.
C11_GetListNamesOnKnownCategory ==
  [][ (regCall'.op \in {"get", "list_names"} /\ regCount' = regCount + 1)
        => /\ registry' = registry
           /\ regCall'.cat \notin Categories => regCall'.result = "KeyError"
           /\ regCall'.cat \in Categories =>
                /\ regCall'.result = "ok"
                /\ (/\ regCall'.op = "get"
                    /\ \A i \in 1..Len(registry[regCall'.cat]) :
                          registry[regCall'.cat][i].name # regCall'.name)
                     => regCall'.found = NoDev
                /\ (regCall'.op = "list_names" /\ registry[regCall'.cat] = << >>)
                     => regCall'.names = << >> ]_vars

\* a get of an unregistered name in a category that holds another device
\* has returned None
C11_Witness ==
  /\ regCall.op = "get" /\ regCall.result = "ok" /\ regCall.found = NoDev
  /\ regCall.cat \in Categories
  /\ registry[regCall.cat] # << >>
  /\ ~DictHas(registry[regCall.cat], regCall.name)

\* this step is a call of op on the driver object
DrvCalled(ops) == drvCount' = drvCount + 1 /\ drvCall'.op \in ops

\* C12: connect() on a device that is already Connected opens no transport,
\* does no handshake I/O, and leaves the device Connected with the transport
\* it had.
C12_ConnectIsIdempotent ==
  [][ (DrvCalled({"connect"}) /\ drv.connected)
        => /\ drvCall'.result = "ok"
           /\ ~drvCall'.opened
           /\ drvCall'.sent = << >>
           /\ drv'.connected
           /\ drv'.ser = drv.ser /\ drv'.opens = drv.opens ]_vars

\* connect() has been called on a Connected TC720 and on a Connected GX281
C12_Witness ==
  /\ drvCall.op = "connect" /\ drvCall.result = "ok" /\ ~drvCall.opened
  /\ drv.connected /\ drvCount >= 2
  /\ drv.kind \in {"TC720", "GX281"}

\* C13: close() never raises, whatever the connection state (never
\* connected, connected, already closed), and the device is Disconnected
\* when it returns.
C13_CloseIsAlwaysSafe ==
  [][ DrvCalled({"close"})
        => /\ drvCall'.result = "ok"
           /\ ~drv'.connected
           /\ drv'.ser # "open" ]_vars

\* the safe state stop() has to command on a Connected device: the pump is
\* told to stop, the controller is given a setpoint, the needle is parked
StopDrivesToSafeState ==
  /\ drv.kind = "PhdUltraPump" => Wire("stop", NoArg, NoArg) \in Range(drvCall'.sent)
  /\ drv.kind = "TC720" => \E i \in 1..Len(drvCall'.sent) : drvCall'.sent[i][1] = "*1c"
  /\ (drv.kind \in {"GX281", "GX281Legacy"} /\ ~drvCall'.silent) => drv'.z = SAFE_Z

\* C14: stop() does not raise, also when the device is already stopped or
\* was never started, and on a Connected device it drives the device to its
\* safe state.
C14_StopIsSafeAndQuiet ==
  [][ DrvCalled({"stop"})
        => /\ drvCall'.result = "ok"
           /\ (drv.connected /\ drv.ser # "closed") => StopDrivesToSafeState ]_vars

\* C15: when the serial port of a ViciValve can be opened, connect() programs
\* the configured number of positions and returns with the valve Connected,
\* and the commands that follow are accepted and transmitted.
C15_ViciConnectProgramsAndConnects ==
  [][ /\ (DrvCalled({"connect"}) /\ drv.kind = "ViciValve" /\ drvCall'.opened)
          => /\ drvCall'.result = "ok"
             /\ drv'.connected
             /\ drvCall'.sent = <<Wire("NP", ValvePositions, NoArg)>>
      /\ (/\ DrvCalled({"check_firmware_version", "move_home", "check_current_position"})
          /\ drv.kind = "ViciValve" /\ drv.ser = "open")
          => drvCall'.sent # << >> ]_vars

\* C16: a valve position command whose position is outside 1..positions
\* raises an error and writes nothing to the serial link; go_to_position
\* refuses it with ValueError.
C16_OutOfRangePositionIsRejectedLocally ==
  [][ (/\ DrvCalled({"go_to_position", "move_clockwise", "move_counterclockwise"})
       /\ drv.kind = "ViciValve"
       /\ drvCall'.a # NoArg
       /\ (drvCall'.a < 1 \/ drvCall'.a > ValvePositions))
        => /\ drvCall'.result # "ok"
           /\ drvCall'.sent = << >>
           /\ drvCall'.op = "go_to_position" => drvCall'.result = "ValueError" ]_vars

\* go_to_position(41) has been refused on a 6-way valve whose port is open
C16_Witness ==
  /\ drv.kind = "ViciValve" /\ drv.ser = "open"
  /\ drvCall.op = "go_to_position" /\ drvCall.a = 41
  /\ drvCall.result = "ValueError" /\ drvCall.sent = << >>

\* C17: a request the device never answers ends, and ends in an error: it
\* neither hangs nor returns as if the command had succeeded.
C17_SilentDeviceSurfacesAnError ==
  drvCall.silent => drvCall.result \notin {"ok", "hang"}

\* the commands of s that move the needle in XY, and in Z
XyCommands(str) == {i \in 1..Len(str) : str[i][1] = "SX"}
ZCommands(str) == {i \in 1..Len(str) : str[i][1] = "SZ"}

\* C18: a move_xy / move_z request outside the travel envelope is clamped to
\* the nearest boundary, and the clamped value is what is transmitted and
\* what is reported for the command.
C18_ClampedValueIsSentAndReported ==
  /\ \A i \in XyCommands(drvCall.sent) :
        /\ drvCall.sent[i][2] = Clamp(drvCall.a, 0, 700)
        /\ drvCall.sent[i][3] = Clamp(drvCall.b, 0, 380)
        /\ drvCall.reported # << >> => drvCall.reported = <<drvCall.sent[i][2], drvCall.sent[i][3]>>
  /\ (drvCall.op \in {"move_z", "execute_gx281.move_z_height"} /\ drvCall.result = "ok")
        => /\ drvCall.sent = <<Wire("SZ", Clamp(drvCall.a, 0, 125), NoArg)>>
           /\ drvCall.reported # << >> => drvCall.reported = <<drvCall.sent[1][2]>>

\* C19: a move_xy call sends a Z-raise to the safe height before the XY
\* command when the needle is below the safe height and no Z-raise when it
\* is at or above it, and no XY command is sent unless the needle has been
\* ensured to be at or above the safe height.
C19_SafeZBeforeXy ==
  [][ DrvCalled({"move_xy", "execute_gx281.move_xy", "_do_gx281.move_xy"})
        => /\ \A i \in XyCommands(drvCall'.sent) :
                \/ /\ drv.z >= 125
                   /\ Wire("Z", NoArg, NoArg) \in {drvCall'.sent[j] : j \in 1..(i - 1)}
                \/ \E j \in 1..(i - 1) : drvCall'.sent[j] = Wire("SZ", 125, NoArg)
           /\ (drvCall'.op = "move_xy" /\ drv.z >= 125) => ZCommands(drvCall'.sent) = {}
           /\ (drvCall'.op = "move_xy" /\ drv.z < 125 /\ drvCall'.result = "ok")
                => ZCommands(drvCall'.sent) # {} ]_vars

\* value of a hex digit

\* C20: in every frame the temperature-controller driver builds, the
\* checksum field is the sum of the byte values of the six body characters,
\* reduced mod 256, written as exactly two hex digits between the body and
\* the terminator.
C20_ChecksumIsByteSumMod256 ==
  frame # << >>
    => /\ Len(frame) = 10
       /\ frame[1] = "*" /\ frame[10] = "\r"
       /\ \A i \in 2..9 : \E k \in 1..16 : HexDigits[k] = frame[i]
       /\ 16 * HexVal(frame[8]) + HexVal(frame[9])
            = (Ord(frame[2]) + Ord(frame[3]) + Ord(frame[4])
               + Ord(frame[5]) + Ord(frame[6]) + Ord(frame[7])) % 256

\* the frame of the highest setpoint, 100.00 C = 0x2710: body 1c2710, byte
\* sum 350 = 0x15e, checksum 5e
C20_Witness ==
  frame = <<"*", "1", "c", "2", "7", "1", "0", "5", "e", "\r">>

\* C21: read_temperature returns a value only for a response whose checksum
\* field equals the checksum recomputed from its payload (the byte sum of the
\* four payload characters mod 256, as two hex digits); a response whose
\* checksum field differs is always rejected with an error.
C21_ChecksumVerifiedBeforePayloadTrusted ==
  calc.f = "read_temperature" /\ Len(calc.in) = 8
    => LET resp == calc.in
           recomputed == (Ord(resp[2]) + Ord(resp[3]) + Ord(resp[4]) + Ord(resp[5])) % 256
           field == 16 * HexVal(resp[6]) + HexVal(resp[7])
       IN  /\ calc.out.result = "ok" => field = recomputed
           /\ field # recomputed => calc.out.result = "IOError: Checksum mismatch"
                                      \/ calc.out.result = "IOError: Invalid response"

\* the payload 09c4 (25.00 C) has the checksum 0x30+0x39+0x63+0x34 = 0x100
\* -> 00; the response that carries 01 instead is rejected
C21_Witness ==
  /\ calc.f = "read_temperature"
  /\ calc.in = <<"*", "0", "9", "c", "4", "0", "1", "^">>
  /\ calc.out.result = "IOError: Checksum mismatch"

\* C22: for every value representable as signed 16-bit hundredths of a
\* degree, negative ones included, the encoder writes a field of four
\* hexadecimal digits, and decoding that field the way read_temperature does
\* returns the original value.
C22_EncodeDecodeRoundTrip ==
  calc.f = "convert_temp_to_bstc" /\ calc.in \in -32768..32767
    => /\ Len(calc.out.field) = 4
       /\ \A i \in 1..4 : \E k \in 1..16 : HexDigits[k] = calc.out.field[i]
       /\ calc.out.decoded = [result |-> "ok", value |-> calc.in]

\* C23: set_temperature with a setpoint outside the safe range raises the
\* validation error, writes nothing to the link and encodes no frame,
\* whatever the connection state; a setpoint that is encoded or transmitted
\* is in range.
C23_OutOfRangeSetpointIsNeverEncoded ==
  [][DrvCalled({"set_temperature"})
       => /\ ~(0 <= drvCall'.a /\ drvCall'.a <= 100)
               => /\ drvCall'.result = "ValueError"
                  /\ drvCall'.sent = << >>
                  /\ frame' = frame
                  /\ drv' = drv
          /\ drvCall'.sent # << >> \/ frame' # frame
               => 0 <= drvCall'.a /\ drvCall'.a <= 100]_vars

\* a connected controller, port open, refuses 101 C and writes nothing
C23_Witness ==
  /\ drv.kind = "TC720" /\ drv.ser = "open"
  /\ drvCall.op = "set_temperature" /\ drvCall.a = 101
  /\ drvCall.result = "ValueError" /\ drvCall.sent = << >>

\* C24: for every rack type in {204, 207, 209, 304} and every bed 1..6 the
\* construction of the layout succeeds, the wells are numbered 1..num_wells,
\* well i has the x and y of the i-th generated coordinate and the z of the
\* rack, and the coordinate list has exactly num_wells entries.
C24_EveryRackTypeGivesABijection ==
  /\ calc.f = "Bed_Layout"
  /\ calc.in[1] \in 1..6
  /\ calc.in[2] \in {<<"int", 204>>, <<"int", 207>>, <<"int", 209>>, <<"int", 304>>}
  => /\ calc.out.result = "ok"
     /\ calc.out.num_wells > 0
     /\ DOMAIN calc.out.wells = 1..calc.out.num_wells
     /\ Len(calc.out.coordinates) = calc.out.num_wells
     /\ \A i \in 1..calc.out.num_wells :
          /\ calc.out.wells[i][1] = calc.out.coordinates[i][1]
          /\ calc.out.wells[i][2] = calc.out.coordinates[i][2]
          /\ calc.out.wells[i][3] > 0
     /\ \A i, j \in 1..calc.out.num_wells :
          calc.out.coordinates[i] = calc.out.coordinates[j] => i = j

\* C28 as claimed: after set_flow_rate with a zero or negative rate,
\* pump_solution transmits no command to the motor.
C28_NonPositiveRateSendsNothing ==
  m6.op = "pump_solution" /\ m6.flow <= 0 => m6.sent = << >>

\* C28: after set_flow_rate with rate 0, pump_solution ends in the (printed)
\* ValueError, or RuntimeError without an open port, and transmits no
\* command; a negative rate is not rejected: with the port open the profile
\* is transmitted with the velocity the driver derived from the magnitude of
\* the rate.
C28_ZeroRateSendsNothing ==
  m6.op = "pump_solution"
    => /\ m6.flow = 0 => m6.sent = << >> /\ m6.result \in {"ValueError", "RuntimeError"}
       /\ m6.flow < 0 /\ m6.ser = "open"
            => /\ m6.result = "ok"
               /\ \E i \in 1..Len(m6.sent) : m6.sent[i] = Wire("VM", m6.VM, NoArg)
               /\ m6.VM >= 0

\* a pump with its port open, rate set to 0, refuses pump_solution(500)
C28_Witness ==
  /\ m6.op = "pump_solution" /\ m6.ser = "open" /\ m6.flow = 0 /\ m6.a = 500
  /\ m6.result = "ValueError" /\ m6.sent = << >>

\* C29: for every direction, rate > 0 and volume given to set_flow_rate and
\* pump_solution, the profile written to the motor has VM = steps_per_uL x
\* rate / 60 rounded to the nearest integer and MA = steps_per_uL x volume
\* rounded to the nearest integer, positive when dispensing and negative
\* when aspirating; steps_per_uL is the calibration entry of (direction,
\* rate) or 2606.371104.
C29_ProfileIsRounded ==
  m6.op = "pump_solution" /\ m6.result = "ok" /\ m6.profiled /\ m6.flow > 0
    => LET spu == StepsPerUl(m6.direction, m6.flow)
           sign == IF m6.direction = "dispensing" THEN 1 ELSE -1
           \* steps_per_uL x rate / 60 and steps_per_uL x volume in millionths;
           \* the first in units of 1/6000
           velocity6000 == spu[1] * m6.flow
                             + (spu[2] * (m6.flow \div 100)
                                  + (spu[2] * (m6.flow % 100)) \div 100) \div 10000
           steps == sign * (spu[1] * m6.a + (spu[2] * m6.a + 500000) \div 1000000)
       IN  /\ \E i \in 1..Len(m6.sent) : m6.sent[i] = Wire("MA", steps, NoArg)
           /\ \E i \in 1..Len(m6.sent) :
                /\ m6.sent[i][1] = "VM"
                /\ 6000 * m6.sent[i][2] - 3000 <= velocity6000
                /\ velocity6000 < 6000 * m6.sent[i][2] + 3000

\* C30: on the syringe pump, set_rate and dispense with a flow rate <= 0
\* raise the validation error and transmit no command.
C30_NonPositiveRateIsRejected ==
  \/ drvCall.op = "set_rate" /\ drvCall.a <= 0
  \/ drvCall.op = "dispense" /\ drvCall.b <= 0
  => drvCall.result = "ValueError" /\ drvCall.sent = << >>

\* the records of the current row written by the control thread
DispatchRecords ==
  SelectSeq(log[idx], LAMBDA e : e \notin {"done", "Error in thread"})

\* the dispatch of the current row has ended, by a return or an exception
DispatchEnded == idx > 0 /\ pc \in {"loop", "raised"}

\* C25: a Pump command with the action of a dispense ("dispense" in the
\* scenario of the specification, "dispensing" in the scripts of the
\* drivers), positive flow rate and volume and the id of a registered pump
\* launches exactly one background operation and writes exactly one
\* "started" record.
C25_PumpCommandStartsOneOperation ==
  /\ DispatchEnded
  /\ cmd.comp = "Pump" /\ cmd.action \in {"dispense", "dispensing"}
  /\ cmd.rate > 0 /\ cmd.arg > 0 /\ cmd.id \in {1, 2, 3}
  => /\ DispatchRecords = <<"started">>
     /\ Cardinality({k \in 1..Len(threads) : threads[k] = idx}) = 1
     /\ jobs[idx] # NoJob

\* C26: the dispatch of a Pump command with a flow rate <= 0 or a volume
\* <= 0 (registered pump, action aspirating or dispensing) returns to the
\* loop having written the one record "skipped", launched nothing, called
\* no driver and left the outstanding operations as they were.
C26_NonPositivePumpCommandIsSkipped ==
  [][ /\ pc = "dispatch" /\ pc' # pc
      /\ cmd.comp = "Pump" /\ cmd.action \in {"aspirating", "dispensing"}
      /\ cmd.id \in {1, 2, 3}
      /\ cmd.rate <= 0 \/ cmd.arg <= 0
      => /\ pc' = "loop"
         /\ log'[idx] = Append(log[idx], "skipped")
         /\ threads' = threads /\ jobs' = jobs
         /\ touched' = {} /\ mainIn' = mainIn /\ exc' = exc ]_vars

\* C27: when the dispatch of a command has ended, the control thread has
\* written exactly one record for it, whatever its component and action.
C27_OneRecordPerCommand ==
  DispatchEnded => Len(DispatchRecords) = 1

\* C31: in the log of every row that launched a background operation, the
\* record of the operation's completion or failure comes after the
\* "started" record of that row, in every interleaving of the two threads.
C31_StartedBeforeOutcome ==
  \A h \in Handles : \A i \in 1..Len(log[h]) :
    log[h][i] \in {"done", "Error in thread"}
      => \E j \in 1..(i - 1) : log[h][j] = "started"

\* C36: a move_xy call in which the needle's Z height could not be read or
\* parsed (the device did not answer the Z query, or the query itself
\* raised) puts no XY move command on the wire.
C36_NoXyMoveWithoutZ ==
  ( /\ drvCall.op \in {"move_xy", "execute_gx281.move_xy", "_do_gx281.move_xy"}
    /\ \/ drvCall.silent
       \/ /\ drv.kind = "GX281Legacy"
          /\ Wire("Z", NoArg, NoArg) \in {drvCall.sent[i] : i \in 1..Len(drvCall.sent)} )
    => XyCommands(drvCall.sent) = {}

\* C35: constructing a bed layout with a bed number outside 1..6 fails; it
\* never yields a layout (which would carry another bed's X offset).
C35_BedOutsideRangeFails ==
  (calc.f = "Bed_Layout" /\ calc.in[1] \notin 1..6) => calc.out.result # "ok"

\* C33: in a constructed layout of bed b, well k (1-based) lies at
\* x = X[(k-1) div |Y|] + x_offset[b-1] and y = Y[(k-1) mod |Y|], with the
\* stagger added to y exactly for the wells of the odd-indexed X columns of
\* rack 209 and for no well of another rack; z is the rack's Z.
C33_WellCoordinateFormula ==
  (calc.f = "Bed_Layout" /\ calc.in[1] \in 1..6 /\ calc.out.result = "ok")
    => LET r == Rack(calc.in[2])
       IN  \A k \in 1..calc.out.num_wells :
             LET col == (k - 1) \div Len(r.Y)
                 row == (k - 1) % Len(r.Y)
             IN  /\ calc.out.wells[k][1] = r.X[col + 1] + r.x_offset[calc.in[1]]
                 /\ calc.out.wells[k][2] =
                      r.Y[row + 1]
                        + (IF calc.in[2] = <<"int", 209>> /\ col % 2 = 1
                             THEN 85 ELSE 0)
                 /\ calc.out.wells[k][3] = r.Z

\* rack 209 on bed 2: well 17, the first of the second column, is staggered
\* and well 33, the first of the third column, is not
C33_Witness ==
  /\ calc.f = "Bed_Layout"
  /\ calc.in = <<2, <<"int", 209>>>>
  /\ calc.out.result = "ok"
  /\ calc.out.wells[17] = <<1492, 1015, 860>>
  /\ calc.out.wells[33] = <<1658, 930, 860>>

\* C32: every pump_solution(volume) that drives the motor commands a travel
\* of the full step count of that volume, signed by the direction and
\* measured from the position the motor has when the move is commanded,
\* whatever was pumped before.
C32_FullDisplacementEveryCall ==
  (m6 # NoM6 /\ m6.op = "pump_solution" /\ m6.result = "ok")
    => \E i, j \in 1..Len(m6.sent) :
         /\ m6.sent[i][1] = "P" /\ m6.sent[j][1] = "MA" /\ i < j
         /\ m6.sent[j][2] - m6.sent[i][2]
              = m6.mult * M6TotalMicrosteps(m6.spu, m6.a)

\* C34: a set_flow_rate call either leaves flow rate, steps per uL, target
\* velocity and direction sign as they were, or leaves all four derived from
\* the one (direction, rate) pair of that call.
C34_ProfileFromOnePair ==
  [][ (m6 # NoM6 /\ m6'.op = "set_flow_rate" /\ m6'.calls = m6.calls + 1)
        => \/ <<m6'.flow, m6'.direction, m6'.mult, m6'.spu, m6'.VM>>
                = <<m6.flow, m6.direction, m6.mult, m6.spu, m6.VM>>
           \/ \E d \in {"aspirating", "dispensing"} :
                /\ m6'.direction = d
                /\ m6'.mult = (IF d = "dispensing" THEN 1 ELSE -1)
                /\ m6'.spu = StepsPerUl(d, m6'.flow)
                /\ m6'.VM = M6Velocity(m6'.spu, m6'.flow) ]_vars

\* C37: no device has been closed while a background operation launched on
\* it is still in flight: on the normal end and on the fatal abort alike,
\* every outstanding operation has finished before close() is called.
C37_NoCloseWhileInFlight ==
  \A h \in Handles : Alive(h) => jobs[h].dev \notin closeCalled

\* C38: for every driver with a serial transport, close() leaves
\* connected = False, and connected = True implies that the transport is
\* open (so a connect() after a close() has re-opened it).
C38_ConnectedImpliesTransportOpen ==
  /\ (drvCall.op = "close" /\ drvCall.result = "ok") => ~drv.connected
  /\ (drv.kind \in {"ViciValve", "TC720", "PhdUltraPump"} /\ drv.connected)
       => drv.ser = "open"

\* C39: a connect() that fails leaves the device Disconnected and leaves no
\* transport handle open.
C39_FailedConnectLeavesNothingOpen ==
  [][ (DrvCalled({"connect"}) /\ drvCall'.result # "ok")
        => /\ ~drv'.connected
           /\ drv'.ser # "open" ]_vars

\* C40: every run over a finite command list comes to an end; the barrier
\* after the last command is left only when every background operation has
\* finished, and a run that has ended normally (not by the fatal abort, not
\* by an exception) has no background operation outstanding.
C40_RunEndsBehindTheBarrier ==
  /\ <>(pc \in {"done", "raised"})
  /\ [][ (pc = "final" /\ pc' # "final")
           => /\ \A h \in Handles : ~Alive(h)
              /\ threads' = << >> ]_vars
  /\ [](( pc = "done" /\ exc = NoExc )
          => /\ threads = << >>
             /\ \A h \in Handles : ~Alive(h))

\* a run that launched a pump operation and ended normally after its
\* completion record
C40_Witness ==
  /\ pc = "done" /\ exc = NoExc /\ idx > 0
  /\ \E h \in Handles : \E i \in 1..Len(log[h]) : log[h][i] = "done"

====
